---- MODULE Spec2Model ----
(***************************************************************************)
(* Deployment orchestrator of ai-lumiolabs: createDeployment,              *)
(* updateDeploymentStatus, cancelDeployment (lib/deployment), the Cloud    *)
(* Build adapter (lib/cloudbuild), the manual deploy route, the GitHub     *)
(* webhook route, the cancel route and the log-stream route.               *)
(*                                                                         *)
(* Every `await` on the database or on the build backend is one step, so   *)
(* request handlers interleave exactly at the points where the Node event  *)
(* loop can switch between them.                                           *)
(***************************************************************************)
EXTENDS Integers, Sequences, FiniteSets, TLC

VARIABLES
    deployments,  \* the deployments table, in insertion order (id = index)
    projects,     \* the mutable columns of the projects table
    builds,       \* the builds held by the build backend (buildId = index)
    cr,           \* one record per request that may run createDeployment
    kn,           \* one record per cancel (DELETE) request
    rl,           \* one record per log-stream (GET .../logs) request
    wh,           \* the webhook delivery being served, or the last one's answer
    dp,           \* the last manual deploy (POST .../deploy) request's answer
    overlap,      \* history: some createDeployment started while another ran
    served,       \* history: the number of requests served so far, by route
    call          \* a library function under evaluation: arguments, result

vars == <<deployments, projects, builds, cr, kn, rl, wh, dp, overlap, served,
          call>>

----------------------------------------------------------------------------
(* Bounds of the model *)

MaxRequests == 2
MaxLog == 1
MaxBody == 2
\* The longest path of a URL given to repoUrlMatches, in tokens.
MaxUrl == 4
\* The most rows of the deployments table getDeployments is called on; pages
\* and page sizes go up to the same number.
MaxRows == 3
\* The longest log object streamBuildLogs is called on, in bytes.
MaxBytes == 4

----------------------------------------------------------------------------
(* Static data *)

Creators == {1, 2}
Cancellers == {"k1"}
Relays == {"r1"}

Users == {"alice", "bob"}
\* The rows of the projects table, and the ids a request may name.
Projects == DOMAIN projects
ProjectIds == Projects \cup {"missing"}

\* Two tables: one project with a repository and one without; and the same
\* with four more projects that share repositories and branches.
SmallTable == {"p1", "p2"}
LargeTable == {"p1", "p2", "p3", "p4", "p5", "p6"}

\* The URLs of the projects and of the push events.
AppHttpsGit == <<"https://", "github.com", "/", "acme", "/", "app", ".git">>
AppShorthand == <<"acme", "/", "App">>
SiteSshGit == <<"git@", "github.com", ":", "acme", "/", "site", ".git">>
SiteHttpsGit == <<"https://", "github.com", "/", "acme", "/", "site", ".git">>
NoUrl == <<>>

\* The columns of a project that no modelled handler writes. p2 has no
\* repository. p3 builds p1's repository and branch, with auto-deploy off;
\* p4, p5 and p6 build another repository on another branch, p6 with its
\* webhook disabled.
ProjectCfg(p) ==
    CASE p = "p1" ->
           [owner |-> "alice", repoUrl |-> AppHttpsGit,
            branch |-> "main", enabled |-> TRUE, autoDeploy |-> TRUE,
            subdomain |-> "app1"]
      [] p = "p2" ->
           [owner |-> "alice", repoUrl |-> NoUrl,
            branch |-> "main", enabled |-> TRUE, autoDeploy |-> TRUE,
            subdomain |-> "app2"]
      [] p = "p3" ->
           [owner |-> "bob", repoUrl |-> AppHttpsGit,
            branch |-> "main", enabled |-> TRUE, autoDeploy |-> FALSE,
            subdomain |-> "app3"]
      [] p = "p4" ->
           [owner |-> "bob", repoUrl |-> SiteSshGit,
            branch |-> "dev", enabled |-> TRUE, autoDeploy |-> TRUE,
            subdomain |-> "site4"]
      [] p = "p5" ->
           [owner |-> "bob", repoUrl |-> SiteSshGit,
            branch |-> "dev", enabled |-> TRUE, autoDeploy |-> TRUE,
            subdomain |-> "site5"]
      [] OTHER ->
           [owner |-> "bob", repoUrl |-> SiteSshGit,
            branch |-> "dev", enabled |-> FALSE, autoDeploy |-> TRUE,
            subdomain |-> "site6"]

Terminal == {"LIVE", "FAILED", "CANCELLED"}
NonTerminal == {"QUEUED", "CLONING", "BUILDING", "PUSHING", "DEPLOYING"}
DeploymentStatus == NonTerminal \cup Terminal

\* Position of a status on the lifecycle line QUEUED -> ... -> LIVE.
Rank(s) ==
    CASE s = "QUEUED" -> 0
      [] s = "CLONING" -> 1
      [] s = "BUILDING" -> 2
      [] s = "PUSHING" -> 3
      [] s = "DEPLOYING" -> 4
      [] OTHER -> 5

DepIds == DOMAIN deployments

ActiveOf(p) ==
    {d \in DepIds : deployments[d].projectId = p
                    /\ deployments[d].status \in NonTerminal}

DepsOf(p) == {d \in DepIds : deployments[d].projectId = p}

Max(S) == CHOOSE x \in S : \A y \in S : y <= x

\* A faulty LastVersion: the latest version among the deployments still in
\* progress, so that a finished deployment's version is handed out again.
LastVersionOfActive(p) ==
    IF ActiveOf(p) = {} THEN 0
    ELSE Max({deployments[d].version : d \in ActiveOf(p)})

\* include: { deployments: { orderBy: { version: "desc" }, take: 1 } }
\* followed by  project.deployments[0]?.version ?? 0
LastVersion(p) ==
    IF DepsOf(p) = {} THEN 0
    ELSE Max({deployments[d].version : d \in DepsOf(p)})

----------------------------------------------------------------------------
(* Initial state *)

IdleCreator ==
    [pc |-> "idle", projectId |-> "none", lastVersion |-> 0,
     depId |-> 0, buildId |-> 0, err |-> "", activeAtStart |-> FALSE,
     hook |-> FALSE]

\* No webhook delivery has been served yet. signatureOk and event are what
\* the route knows of a delivery from the start, branch and repoUrl what it
\* knows once it has parsed the push; deliveries counts the deliveries
\* served.
IdleWebhook ==
    [pc |-> "idle", res |-> "none", signatureOk |-> FALSE, event |-> "none",
     branch |-> "none", repoUrl |-> NoUrl, matched |-> {}, triggered |-> 0,
     failed |-> 0, deliveries |-> 0]

\* res is the answer to the slot's last request, depId the id it named and
\* user the session's user.
IdleCanceller ==
    [pc |-> "idle", depId |-> 0, buildId |-> 0, res |-> "none",
     user |-> "none"]

\* No manual deploy request has been served yet.
IdleDeploy == [res |-> "none", projectId |-> "none", user |-> "none"]

\* The routes that serve requests.
Routes == {"deploy", "webhook", "cancel", "logs"}

\* res is the answer to the slot's last request and out the events of its
\* stream; failures counts the fetches and polls of the stream that threw,
\* two standing for two or more; concurrent tells that the stream was opened
\* while another stream of the same deployment was open.
IdleRelay ==
    [pc |-> "idle", depId |-> 0, status |-> "none", buildId |-> 0,
     newStatus |-> "none", lastSize |-> 0, acc |-> <<>>, genDone |-> FALSE,
     res |-> "none", out |-> <<>>, failures |-> 0, concurrent |-> FALSE]

\* A project that has not been deployed.
NewProject ==
    [status |-> "PENDING", lastDeployedAt |-> 0, cloudRunService |-> <<>>]

\* No library function is being evaluated on its own.
NoCall == [fn |-> "none"]

Init ==
    /\ call = NoCall
    /\ deployments = <<>>
    /\ projects = [p \in SmallTable |-> NewProject]
    /\ builds = <<>>
    /\ cr = [c \in Creators |-> IdleCreator]
    /\ kn = [k \in Cancellers |-> IdleCanceller]
    /\ rl = [r \in Relays |-> IdleRelay]
    /\ wh = IdleWebhook
    /\ dp = IdleDeploy
    /\ overlap = FALSE
    /\ served = [h \in Routes |-> 0]

\* `new Date()`: the clock never runs backwards. Time is measured in
\* deployments created so far, which is all that comparing a timestamp with a
\* deployment's createdAt needs; 0 stands for a timestamp that is not set.
now == Len(deployments)

----------------------------------------------------------------------------
(* lib/github: repository equivalence *)

\* A URL is a string of tokens: a token is a name, a separator, a scheme,
\* the host or the suffix ".git". The tokens that hold a slash:
HasSlash(t) == t \in {"/", "https://"}

\* ([^/]+)\/([^/]+) up to the end of the string: the string is one "/" with
\* a non-empty slash-free string on either side; <<>> when it is not.
OwnerSlashRepo(s) ==
    LET slashes == {j \in DOMAIN s : HasSlash(s[j])}
    IN  IF /\ Cardinality(slashes) = 1
           /\ \E j \in slashes : s[j] = "/" /\ 1 < j /\ j < Len(s)
        THEN LET j == CHOOSE x \in slashes : TRUE
             IN  <<SubSeq(s, 1, j - 1), SubSeq(s, j + 1, Len(s))>>
        ELSE <<>>

\* String.prototype.replace(/\.git$/, "").
ReplaceGit(s) ==
    IF Len(s) > 0 /\ s[Len(s)] = ".git" THEN SubSeq(s, 1, Len(s) - 1) ELSE s

\* The groups of /github\.com[:/]([^/]+)\/([^/]+?)(?:\.git)?$/ at the
\* leftmost place the pattern matches: the lazy second group leaves a final
\* ".git" to the optional group unless that would leave it empty.
HostPattern(url) ==
    LET starts == {i \in 1 .. Len(url) - 1 :
                     /\ url[i] = "github.com"
                     /\ url[i + 1] \in {":", "/"}
                     /\ OwnerSlashRepo(SubSeq(url, i + 2, Len(url))) # <<>>}
    IN  IF starts = {} THEN <<>>
        ELSE LET i == CHOOSE x \in starts : \A y \in starts : x <= y
                 m == OwnerSlashRepo(SubSeq(url, i + 2, Len(url)))
             IN  <<m[1], IF Len(m[2]) > 1 THEN ReplaceGit(m[2]) ELSE m[2]>>

\* parseGitHubUrl: the first pattern that matches gives the pair (owner,
\* repo), the repo without a final ".git"; <<>> is null.
parseGitHubUrl(url) ==
    LET host == HostPattern(url)
        short == OwnerSlashRepo(url)
    IN  IF host # <<>> THEN <<host[1], ReplaceGit(host[2])>>
        ELSE IF short # <<>> THEN <<short[1], ReplaceGit(short[2])>>
        ELSE <<>>

\* A faulty toLowerCase: the string as it is.
toLowerCaseKeep(s) == s

\* String.prototype.toLowerCase; App and Acme are the tokens with capitals.
toLowerCase(s) ==
    [i \in DOMAIN s |-> CASE s[i] = "App" -> "app"
                          [] s[i] = "Acme" -> "acme"
                          [] OTHER -> s[i]]

repoUrlMatches(configuredUrl, eventUrl) ==
    LET configured == parseGitHubUrl(configuredUrl)
        event == parseGitHubUrl(eventUrl)
    IN  IF configured = <<>> \/ event = <<>> THEN FALSE
        ELSE /\ toLowerCase(configured[1]) = toLowerCase(event[1])
             /\ toLowerCase(configured[2]) = toLowerCase(event[2])

----------------------------------------------------------------------------
(* lib/github: verifyWebhookSignature *)

\* A request body is a string of at most MaxBody bytes, a byte is 0 or 1.
Bodies == UNION {[1 .. n -> {0, 1}] : n \in 0 .. MaxBody}

\* Secrets; "" is the secret that is not configured.
Secrets == {"", "s1", "s2"}

\* HMAC-SHA256 as an ideal keyed hash: distinct (secret, body) pairs of the
\* model have distinct digests. The hex digest has a fixed length, here the
\* number of binary digits that keeps the pairs apart.
DigestLen == MaxBody + 2

RECURSIVE Pow2(_)
Pow2(n) == IF n = 0 THEN 1 ELSE 2 * Pow2(n - 1)

RECURSIVE BodyValue(_)
BodyValue(body) ==
    IF body = <<>> THEN 0
    ELSE 2 * BodyValue(SubSeq(body, 1, Len(body) - 1)) + body[Len(body)]

hmacHex(secret, body) ==
    LET n == (IF secret = "s2" THEN Pow2(MaxBody + 1) ELSE 0)
             + Pow2(Len(body)) - 1 + BodyValue(body)
    IN  [i \in 1 .. DigestLen |->
            IF (n \div Pow2(DigestLen - i)) % 2 = 1 THEN "1" ELSE "0"]

\* A header value is a string of tokens: the seven characters "sha256=" as
\* one token, and the digits. An absent header is null.
SigTokens == {"sha256=", "0", "1"}
SigTexts == UNION {[1 .. n -> SigTokens] : n \in 0 .. (DigestLen + 2)}
Signatures ==
    {[present |-> TRUE, text |-> t] : t \in SigTexts}
        \cup {[present |-> FALSE, text |-> <<>>]}

\* Buffer.from(text).length
RECURSIVE byteLength(_)
byteLength(text) ==
    IF text = <<>> THEN 0
    ELSE (IF Head(text) = "sha256=" THEN 7 ELSE 1) + byteLength(Tail(text))

\* crypto.timingSafeEqual: throws when the byte lengths differ.
timingSafeEqual(a, b) ==
    IF byteLength(a) # byteLength(b) THEN "throws"
    ELSE IF a = b THEN "true" ELSE "false"

\* A faulty expectedDigest: the "sha256=" prefix is left out.
expectedDigestBare(webhookSecret, payload) == hmacHex(webhookSecret, payload)

\* `sha256=${hmac.update(payload).digest("hex")}`
expectedDigest(webhookSecret, payload) ==
    <<"sha256=">> \o hmacHex(webhookSecret, payload)

\* A faulty verifyWebhookSignature: no try/catch around timingSafeEqual.
verifyWebhookSignatureNoCatch(payload, signature, secret, env) ==
    LET webhookSecret == IF secret # "" THEN secret ELSE env IN
    IF ~signature.present \/ signature.text = <<>> THEN "false"
    ELSE IF webhookSecret = "" THEN "false"
    ELSE timingSafeEqual(expectedDigest(webhookSecret, payload),
                         signature.text)

\* env is the module constant GITHUB_WEBHOOK_SECRET, read from the
\* environment when the module loads. The result is "true" or "false";
\* "throws" would be an exception that leaves the function.
verifyWebhookSignature(payload, signature, secret, env) ==
    LET webhookSecret == IF secret # "" THEN secret ELSE env IN
    IF ~signature.present \/ signature.text = <<>> THEN "false"
    ELSE IF webhookSecret = "" THEN "false"
    ELSE LET r == timingSafeEqual(expectedDigest(webhookSecret, payload),
                                  signature.text)
         IN  IF r = "throws" THEN "false" ELSE r

----------------------------------------------------------------------------
(* lib/deployment: createDeployment *)

CdPcs == {"cd_find", "cd_insert", "cd_project", "cd_submit", "cd_started",
          "cd_failed_dep", "cd_failed_proj"}

InCreate(c) == cr[c].pc \in CdPcs

\* A request arrives.
Arrives(route) ==
    /\ served["deploy"] + served["webhook"] + served["cancel"]
          + served["logs"] < MaxRequests
    /\ served' = [served EXCEPT ![route] = @ + 1]

\* Requests are served by the lowest free slot.
FreeCreators == {c \in Creators : cr[c].pc = "idle"}
Min(S) == CHOOSE x \in S : \A y \in S : x <= y

\* createDeployment settles: a call made by the webhook route is counted by
\* the route's Promise.allSettled as fulfilled or rejected.
Settled(c, fulfilled) ==
    IF ~cr[c].hook THEN wh
    ELSE IF fulfilled THEN [wh EXCEPT !.triggered = @ + 1]
    ELSE [wh EXCEPT !.failed = @ + 1]

\* A faulty CdFind: the guard on the repository URL is missing.
CdFindAnyRepo(c) ==
    /\ cr[c].pc = "cd_find"
    /\ IF cr[c].projectId \notin Projects
       THEN /\ cr' = [cr EXCEPT ![c] = IdleCreator]
            /\ wh' = Settled(c, FALSE)
       ELSE /\ cr' = [cr EXCEPT ![c].pc = "cd_insert",
                                ![c].lastVersion = LastVersion(cr[c].projectId)]
            /\ wh' = wh
    /\ UNCHANGED <<call, dp, deployments, projects, builds, kn, rl, overlap,
                   served>>

\* prisma.project.findUnique with the latest deployment, and the two guards.
CdFind(c) ==
    /\ cr[c].pc = "cd_find"
    /\ IF cr[c].projectId \notin Projects
          \/ ProjectCfg(cr[c].projectId).repoUrl = NoUrl
       THEN /\ cr' = [cr EXCEPT ![c] = IdleCreator]
            /\ wh' = Settled(c, FALSE)
       ELSE /\ cr' = [cr EXCEPT ![c].pc = "cd_insert",
                                ![c].lastVersion = LastVersion(cr[c].projectId)]
            /\ wh' = wh
    /\ UNCHANGED <<call, dp, deployments, projects, builds, kn, rl, overlap,
                   served>>

\* prisma.deployment.create with version nextVersion = lastVersion + 1.
CdInsert(c) ==
    /\ cr[c].pc = "cd_insert"
    /\ deployments' = Append(deployments,
          [projectId |-> cr[c].projectId,
           version |-> cr[c].lastVersion + 1,
           status |-> "QUEUED",
           buildId |-> 0,
           errorMessage |-> "",
           buildLogs |-> <<>>,
           cloudRunUrl |-> "",
           createdAt |-> now + 1,
           startedAt |-> 0,
           completedAt |-> 0])
    /\ cr' = [cr EXCEPT ![c].pc = "cd_project",
                        ![c].depId = Len(deployments) + 1]
    /\ UNCHANGED <<call, dp, wh, projects, builds, kn, rl, overlap, served>>

\* prisma.project.update: status BUILDING.
CdProject(c) ==
    /\ cr[c].pc = "cd_project"
    /\ projects' = [projects EXCEPT ![cr[c].projectId].status = "BUILDING"]
    /\ cr' = [cr EXCEPT ![c].pc = "cd_submit"]
    /\ UNCHANGED <<call, dp, wh, deployments, builds, kn, rl, overlap, served>>

\* submitCloudBuild: the access token cannot be had, the backend rejects the
\* build, or the backend accepts it and returns the new build's id.
SubmitOutcomes == {"accepted", "rejected", "no_token"}

CdSubmit(c) ==
    /\ cr[c].pc = "cd_submit"
    /\ \E outcome \in SubmitOutcomes :
         IF outcome = "accepted"
         THEN /\ builds' = Append(builds,
                    [status |-> "QUEUED", logUrl |-> FALSE, logLen |-> 0])
              /\ cr' = [cr EXCEPT ![c].pc = "cd_started",
                                  ![c].buildId = Len(builds) + 1]
         ELSE /\ builds' = builds
              /\ cr' = [cr EXCEPT ![c].pc = "cd_failed_dep",
                                  ![c].err = IF outcome = "rejected"
                                             THEN "Failed to submit Cloud Build"
                                             ELSE "Failed to get access token"]
    /\ UNCHANGED <<call, dp, wh, deployments, projects, kn, rl, overlap, served>>

\* What createDeployment returns as deployment: { ...deployment, buildId },
\* deployment being the record as prisma.deployment.create returned it.
ReturnedDeployment(c) ==
    [status |-> "QUEUED", startedAt |-> 0, buildId |-> cr[c].buildId]

\* prisma.deployment.update: buildId, CLONING, startedAt; then return.
CdStarted(c) ==
    /\ cr[c].pc = "cd_started"
    /\ deployments' = [deployments EXCEPT
          ![cr[c].depId].buildId = cr[c].buildId,
          ![cr[c].depId].status = "CLONING",
          ![cr[c].depId].startedAt = now]
    /\ cr' = [cr EXCEPT ![c] = IdleCreator]
    /\ wh' = Settled(c, TRUE)
    /\ UNCHANGED <<call, dp, projects, builds, kn, rl, overlap, served>>

\* catch: prisma.deployment.update: FAILED, errorMessage, completedAt.
CdFailedDep(c) ==
    /\ cr[c].pc = "cd_failed_dep"
    /\ deployments' = [deployments EXCEPT
          ![cr[c].depId].status = "FAILED",
          ![cr[c].depId].errorMessage = cr[c].err,
          ![cr[c].depId].completedAt = now]
    /\ cr' = [cr EXCEPT ![c].pc = "cd_failed_proj"]
    /\ UNCHANGED <<call, dp, wh, projects, builds, kn, rl, overlap, served>>

\* A faulty CdFailedProj: the project is left as it is.
CdFailedProjKeep(c) ==
    /\ cr[c].pc = "cd_failed_proj"
    /\ projects' = projects
    /\ cr' = [cr EXCEPT ![c] = IdleCreator]
    /\ wh' = Settled(c, FALSE)
    /\ UNCHANGED <<call, dp, deployments, builds, kn, rl, overlap, served>>

\* catch: prisma.project.update: status FAILED; then rethrow.
CdFailedProj(c) ==
    /\ cr[c].pc = "cd_failed_proj"
    /\ projects' = [projects EXCEPT ![cr[c].projectId].status = "FAILED"]
    /\ cr' = [cr EXCEPT ![c] = IdleCreator]
    /\ wh' = Settled(c, FALSE)
    /\ UNCHANGED <<call, dp, deployments, builds, kn, rl, overlap, served>>

----------------------------------------------------------------------------
(* POST /api/projects/[id]/deploy *)

Callers == Users \cup {"anonymous"}

\* A faulty ManualCheck: the owner is not compared with the session's user.
ManualCheckAnyUser(id, user) ==
    IF user = "anonymous" THEN "401"
    ELSE IF id \notin Projects THEN "404"
    ELSE IF ActiveOf(id) # {} THEN "409"
    ELSE "create"

\* Session, project lookup, ownership and the active-deployment lookup, in the
\* route's order: the answer the route gives without calling
\* createDeployment, or "create" when it goes on to call it.
ManualCheck(id, user) ==
    IF user = "anonymous" THEN "401"
    ELSE IF id \notin Projects THEN "404"
    ELSE IF ProjectCfg(id).owner # user THEN "403"
    ELSE IF ActiveOf(id) # {} THEN "409"
    ELSE "create"

\* A request that passes the checks calls createDeployment; the others are
\* answered at once and change nothing.
ManualPost(id, user) ==
    /\ Arrives("deploy")
    /\ dp' = [res |-> ManualCheck(id, user), projectId |-> id, user |-> user]
    /\ IF ManualCheck(id, user) = "create"
       THEN /\ FreeCreators # {}
            /\ cr' = [cr EXCEPT ![Min(FreeCreators)] =
                         [IdleCreator EXCEPT !.pc = "cd_find",
                                             !.projectId = id]]
            /\ overlap' = (overlap \/ \E o \in Creators : InCreate(o))
       ELSE UNCHANGED <<cr, overlap>>
    /\ UNCHANGED <<call, wh, deployments, projects, builds, kn, rl>>

----------------------------------------------------------------------------
(* POST /api/webhooks/github *)

PushBranches == {"main", "dev"}
PushRepos == {AppShorthand, SiteHttpsGit}

\* A faulty MatchingProjects: the auto-deploy flag is not looked at.
MatchingProjectsAnyAuto(branch, repoUrl) ==
    {p \in Projects :
        /\ ProjectCfg(p).repoUrl # NoUrl
        /\ ProjectCfg(p).branch = branch
        /\ ProjectCfg(p).enabled
        /\ repoUrlMatches(ProjectCfg(p).repoUrl, repoUrl)}

\* projects.findMany({repoUrl not null, branch}) and the filter on the
\* webhook configuration and the repository URL.
MatchingProjects(branch, repoUrl) ==
    {p \in Projects :
        /\ ProjectCfg(p).repoUrl # NoUrl
        /\ ProjectCfg(p).branch = branch
        /\ ProjectCfg(p).enabled
        /\ ProjectCfg(p).autoDeploy
        /\ repoUrlMatches(ProjectCfg(p).repoUrl, repoUrl)}

\* The position of a project in the result of findMany: the calls of
\* createDeployment are made in this order.
Row(p) ==
    CASE p = "p1" -> 1
      [] p = "p2" -> 2
      [] p = "p3" -> 3
      [] p = "p4" -> 4
      [] p = "p5" -> 5
      [] OTHER -> 6

\* A faulty WebhookCheck: the signature is not looked at.
WebhookCheckUnsigned(signatureOk, event, branch, repoUrl) ==
    IF event # "push" THEN "200: event not handled"
    ELSE IF MatchingProjects(branch, repoUrl) = {}
    THEN "200: no matching projects"
    ELSE "deploy"

\* What the route answers without calling createDeployment, or "deploy".
WebhookCheck(signatureOk, event, branch, repoUrl) ==
    IF ~signatureOk THEN "401"
    ELSE IF event # "push" THEN "200: event not handled"
    ELSE IF MatchingProjects(branch, repoUrl) = {}
    THEN "200: no matching projects"
    ELSE "deploy"

\* A delivery; signatureOk is the result of verifyWebhookSignature on its
\* body and header. For a verified push, createDeployment is called for
\* every matching project, all at once (Promise.allSettled over
\* matchingProjects.map). No lookup of an active deployment precedes the
\* calls.
WebhookPost(signatureOk, event, branch, repoUrl) ==
    LET matching == MatchingProjects(branch, repoUrl) IN
    /\ wh.pc = "idle"
    /\ Arrives("webhook")
    /\ IF WebhookCheck(signatureOk, event, branch, repoUrl) # "deploy"
       THEN /\ wh' = [IdleWebhook EXCEPT
                        !.deliveries = wh.deliveries + 1,
                        !.signatureOk = signatureOk,
                        !.event = event,
                        !.branch = IF signatureOk /\ event = "push"
                                   THEN branch ELSE "none",
                        !.repoUrl = IF signatureOk /\ event = "push"
                                    THEN repoUrl ELSE NoUrl,
                        !.res = WebhookCheck(signatureOk, event, branch,
                                             repoUrl)]
            /\ UNCHANGED <<cr, overlap>>
       ELSE /\ \E slot \in [matching -> FreeCreators] :
                 /\ \A p, q \in matching : slot[p] = slot[q] => p = q
                 /\ \A p \in matching : \A f \in FreeCreators :
                       f < slot[p] => \E q \in matching : slot[q] = f
                 /\ \A p, q \in matching :
                       (Row(p) < Row(q)) = (slot[p] < slot[q]) \/ p = q
                 /\ cr' = [c \in Creators |->
                             IF \E p \in matching : slot[p] = c
                             THEN LET p == CHOOSE q \in matching : slot[q] = c
                                  IN  [IdleCreator EXCEPT
                                         !.pc = "cd_find",
                                         !.projectId = p,
                                         !.activeAtStart = (ActiveOf(p) # {}),
                                         !.hook = TRUE]
                             ELSE cr[c]]
            /\ wh' = [IdleWebhook EXCEPT
                        !.deliveries = wh.deliveries + 1,
                        !.pc = "wait", !.signatureOk = signatureOk,
                        !.event = event, !.branch = branch,
                        !.repoUrl = repoUrl, !.matched = matching]
            /\ overlap' = (overlap \/ Cardinality(matching) > 1
                                   \/ \E o \in Creators : InCreate(o))
    /\ UNCHANGED <<call, dp, deployments, projects, builds, kn, rl>>

\* A faulty WebhookRespond: one rejected createDeployment fails the request
\* (Promise.all in place of Promise.allSettled).
WebhookRespondFailFast ==
    /\ wh.pc = "wait"
    /\ \/ wh.failed > 0
       \/ wh.triggered + wh.failed = Cardinality(wh.matched)
    /\ wh' = [wh EXCEPT !.pc = "idle",
                        !.res = IF wh.failed > 0 THEN "500"
                                ELSE "200: Webhook processed"]
    /\ UNCHANGED <<call, dp, deployments, projects, builds, cr, kn, rl, overlap,
                   served>>

\* Promise.allSettled has settled: the route counts the fulfilled and the
\* rejected calls and answers with the summary.
WebhookRespond ==
    /\ wh.pc = "wait"
    /\ wh.triggered + wh.failed = Cardinality(wh.matched)
    /\ wh' = [wh EXCEPT !.pc = "idle", !.res = "200: Webhook processed"]
    /\ UNCHANGED <<call, dp, deployments, projects, builds, cr, kn, rl, overlap,
                   served>>

----------------------------------------------------------------------------
(* The build backend (Cloud Build), seen through lib/cloudbuild *)

BuildIds == DOMAIN builds

BackendTerminal == {"SUCCESS", "FAILURE", "TIMEOUT", "INTERNAL_ERROR", "CANCELLED"}
BuildResults == {"SUCCESS", "FAILURE", "TIMEOUT", "INTERNAL_ERROR"}

BuildStates ==
    [status : {"QUEUED", "WORKING", "CANCELLED"} \cup BuildResults,
     logUrl : BOOLEAN, logLen : 0 .. MaxLog]

\* The backend works on its own: a queued build starts to run, and from then
\* on its log location is known; a running build appends to its log and
\* ends with a result. y is x, or what x may have become since it was last
\* looked at.
Progressed(x, y) ==
    \/ y = x
    \/ /\ x.status \in {"QUEUED", "WORKING"}
       /\ y.status \in {"WORKING"} \cup BuildResults
       /\ y.logUrl
       /\ y.logLen >= x.logLen

\* The backend's builds when a request reaches it for build b: only b's
\* progress can matter to the request, so only b's progress is recorded.
Reached(b, y) ==
    /\ y \in BuildStates
    /\ Progressed(builds[b], y)

\* A faulty mapBuildStatusToDeploymentStatus: the default case is FAILED.
mapBuildStatusDefaultFailed(buildStatus) ==
    CASE buildStatus \in {"QUEUED", "PENDING"} -> "QUEUED"
      [] buildStatus = "WORKING" -> "BUILDING"
      [] buildStatus = "SUCCESS" -> "LIVE"
      [] buildStatus \in {"FAILURE", "TIMEOUT", "INTERNAL_ERROR"} -> "FAILED"
      [] buildStatus = "CANCELLED" -> "CANCELLED"
      [] OTHER -> "FAILED"

\* A faulty mapBuildStatusToDeploymentStatus: WORKING is DEPLOYING.
mapBuildStatusWorkingDeploying(buildStatus) ==
    CASE buildStatus \in {"QUEUED", "PENDING"} -> "QUEUED"
      [] buildStatus = "WORKING" -> "DEPLOYING"
      [] buildStatus = "SUCCESS" -> "LIVE"
      [] buildStatus \in {"FAILURE", "TIMEOUT", "INTERNAL_ERROR"} -> "FAILED"
      [] buildStatus = "CANCELLED" -> "CANCELLED"
      [] OTHER -> "BUILDING"

mapBuildStatusToDeploymentStatus(buildStatus) ==
    CASE buildStatus \in {"QUEUED", "PENDING"} -> "QUEUED"
      [] buildStatus = "WORKING" -> "BUILDING"
      [] buildStatus = "SUCCESS" -> "LIVE"
      [] buildStatus \in {"FAILURE", "TIMEOUT", "INTERNAL_ERROR"} -> "FAILED"
      [] buildStatus = "CANCELLED" -> "CANCELLED"
      [] OTHER -> "BUILDING"

----------------------------------------------------------------------------
(* lib/deployment: updateDeploymentStatus, cancelDeployment;               *)
(* DELETE /api/projects/[id]/deployments/[deploymentId]                    *)

\* updateDeploymentStatus: the data of its prisma.deployment.update.
StatusUpdate(d, status) ==
    [deployments EXCEPT
        ![d].status = status,
        ![d].completedAt = IF status \in {"LIVE", "FAILED", "CANCELLED"}
                           THEN now ELSE @]

\* A faulty ProjectAfter: every terminal status other than LIVE, CANCELLED
\* included, marks the project FAILED.
ProjectAfterAnyEnd(d, status) ==
    IF status = "LIVE"
    THEN [projects EXCEPT
            ![deployments[d].projectId].status = "DEPLOYED",
            ![deployments[d].projectId].lastDeployedAt = now,
            ![deployments[d].projectId].cloudRunService =
                <<"project-", ProjectCfg(deployments[d].projectId).subdomain>>]
    ELSE IF status \in {"FAILED", "CANCELLED"}
    THEN [projects EXCEPT ![deployments[d].projectId].status = "FAILED"]
    ELSE projects

\* updateDeploymentStatus: the project update that follows; none for a status
\* other than LIVE and FAILED.
ProjectAfter(d, status) ==
    IF status = "LIVE"
    THEN [projects EXCEPT
            ![deployments[d].projectId].status = "DEPLOYED",
            ![deployments[d].projectId].lastDeployedAt = now,
            ![deployments[d].projectId].cloudRunService =
                <<"project-", ProjectCfg(deployments[d].projectId).subdomain>>]
    ELSE IF status = "FAILED"
    THEN [projects EXCEPT ![deployments[d].projectId].status = "FAILED"]
    ELSE projects

\* Deployment ids a request may name: the stored ones and one unknown id.
RequestIds == 1 .. (Len(deployments) + 1)

\* A faulty CancelCheck: the guard on completed deployments is missing.
CancelCheckUnguarded(d, user) ==
    IF user = "anonymous" THEN "401"
    ELSE IF d \notin DepIds THEN "404"
    ELSE IF ProjectCfg(deployments[d].projectId).owner # user THEN "403"
    ELSE "cancel"

\* The route's session, lookup and ownership checks, then cancelDeployment's
\* own lookup and its two guards: the error the request ends with, or
\* "cancel" when cancelDeployment goes on.
CancelCheck(d, user) ==
    IF user = "anonymous" THEN "401"
    ELSE IF d \notin DepIds THEN "404"
    ELSE IF ProjectCfg(deployments[d].projectId).owner # user THEN "403"
    ELSE IF deployments[d].status \in {"LIVE", "FAILED", "CANCELLED"}
    THEN "Cannot cancel a completed deployment"
    ELSE "cancel"

\* DELETE up to and including cancelDeployment's findUnique: the request is
\* answered with an error, or cancelDeployment goes on with its copy of the
\* deployment.
CancelRead(k, d, user) ==
    /\ kn[k].pc = "idle"
    /\ Arrives("cancel")
    /\ IF CancelCheck(d, user) = "cancel"
       THEN kn' = [kn EXCEPT ![k] =
                     [pc |-> IF deployments[d].buildId # 0
                             THEN "k_backend" ELSE "k_update",
                      depId |-> d,
                      buildId |-> deployments[d].buildId,
                      res |-> "none",
                      user |-> user]]
       ELSE kn' = [kn EXCEPT ![k] =
                     [IdleCanceller EXCEPT !.depId = d,
                                           !.user = user,
                                           !.res = CancelCheck(d, user)]]
    /\ UNCHANGED <<call, dp, wh, deployments, projects, builds, cr, rl, overlap>>

\* A faulty CancelBackend: no try/catch, a failed backend cancellation ends
\* cancelDeployment with the error.
CancelBackendThrowing(k) ==
    /\ kn[k].pc = "k_backend"
    /\ \E accepted \in BOOLEAN, build \in BuildStates :
         /\ Reached(kn[k].buildId, build)
         /\ IF accepted
            THEN /\ build.status \notin BackendTerminal
                 /\ builds' = [builds EXCEPT ![kn[k].buildId] =
                                  [build EXCEPT !.status = "CANCELLED"]]
                 /\ kn' = [kn EXCEPT ![k].pc = "k_update"]
            ELSE /\ builds' = [builds EXCEPT ![kn[k].buildId] = build]
                 /\ kn' = [kn EXCEPT ![k] =
                             [IdleCanceller EXCEPT !.depId = kn[k].depId,
                                                   !.user = kn[k].user,
                                                   !.res = "500"]]
    /\ UNCHANGED <<call, dp, wh, deployments, projects, cr, rl, overlap, served>>

\* cancelCloudBuild inside try/catch: the backend cancels a build that has
\* not ended; any other request fails, and the failure is only logged.
CancelBackend(k) ==
    /\ kn[k].pc = "k_backend"
    /\ \E accepted \in BOOLEAN, build \in BuildStates :
         /\ Reached(kn[k].buildId, build)
         /\ IF accepted
            THEN /\ build.status \notin BackendTerminal
                 /\ builds' = [builds EXCEPT ![kn[k].buildId] =
                                  [build EXCEPT !.status = "CANCELLED"]]
            ELSE builds' = [builds EXCEPT ![kn[k].buildId] = build]
         /\ kn' = [kn EXCEPT ![k].pc = "k_update"]
    /\ UNCHANGED <<call, dp, wh, deployments, projects, cr, rl, overlap, served>>

\* return updateDeploymentStatus(deploymentId, "CANCELLED")
CancelUpdate(k) ==
    /\ kn[k].pc = "k_update"
    /\ deployments' = StatusUpdate(kn[k].depId, "CANCELLED")
    /\ projects' = ProjectAfter(kn[k].depId, "CANCELLED")
    /\ kn' = [kn EXCEPT ![k] = [IdleCanceller EXCEPT !.depId = kn[k].depId,
                                                      !.user = kn[k].user,
                                                      !.res = "200"]]
    /\ UNCHANGED <<call, dp, wh, builds, cr, rl, overlap, served>>

----------------------------------------------------------------------------
(* GET /api/projects/[id]/deployments/[deploymentId]/logs and               *)
(* lib/cloudbuild: streamBuildLogs                                          *)

\* Log text is a sequence of tokens: byte i of a build's log is the token i;
\* the literal chunks of streamBuildLogs and of the route are tokens of their
\* own.
NoLogsYet == 0 - 1
BuildEndedMark == 0 - 2
NoLogsAvailable == 0 - 3
WaitingForBuild == 0 - 4

LogBytes(build, from) == [i \in 1 .. (build.logLen - from) |-> from + i]

\* The events of the stream.
LogEvent(content) == [type |-> "log", content |-> content, status |-> ""]
StatusEvent(status) == [type |-> "status", content |-> <<>>, status |-> status]
CompleteEvent == [type |-> "complete", content |-> <<>>, status |-> ""]
ErrorEvent == [type |-> "error", content |-> <<>>, status |-> ""]

\* What the route answers before it opens a stream, or "stream".
LogsCheck(d, user) ==
    IF user = "anonymous" THEN "401"
    ELSE IF d \notin DepIds THEN "404"
    ELSE IF deployments[d].status \in {"LIVE", "FAILED", "CANCELLED"}
    THEN "stored"
    ELSE IF deployments[d].buildId = 0 THEN "waiting"
    ELSE "stream"

\* The body of the response for a deployment that has ended.
StoredEvents(d) ==
    <<LogEvent(IF deployments[d].buildLogs # <<>>
               THEN deployments[d].buildLogs ELSE <<NoLogsAvailable>>),
      StatusEvent(deployments[d].status),
      CompleteEvent>>

\* A faulty WaitingEvents: the placeholder is followed by complete.
WaitingEventsComplete == <<LogEvent(<<WaitingForBuild>>), CompleteEvent>>

\* The body of the response for a deployment without a build.
WaitingEvents == <<LogEvent(<<WaitingForBuild>>)>>

\* The route reads the deployment once. It answers at once with an error,
\* with the stored logs or with a placeholder, or it opens a stream that
\* works on its copy of the deployment.
LogsGet(r, d, user) ==
    /\ rl[r].pc = "idle"
    /\ Arrives("logs")
    /\ rl' = [rl EXCEPT ![r] =
          CASE LogsCheck(d, user) = "stream" ->
                 [IdleRelay EXCEPT !.pc = "g_init", !.depId = d, !.res = "200",
                                   !.status = deployments[d].status,
                                   !.buildId = deployments[d].buildId,
                                   !.concurrent =
                                       \E o \in DOMAIN rl \ {r} :
                                          /\ rl[o].pc # "idle"
                                          /\ rl[o].depId = d]
            [] LogsCheck(d, user) = "stored" ->
                 [IdleRelay EXCEPT !.depId = d, !.res = "200",
                                   !.out = StoredEvents(d)]
            [] LogsCheck(d, user) = "waiting" ->
                 [IdleRelay EXCEPT !.depId = d, !.res = "200",
                                   !.out = WaitingEvents]
            [] OTHER ->
                 [IdleRelay EXCEPT !.depId = d, !.res = LogsCheck(d, user)]]
    /\ UNCHANGED <<call, dp, wh, deployments, projects, builds, cr, kn, overlap>>

\* The stream is closed after a last event; the slot keeps what it sent.
Closed(r, out, event) ==
    [IdleRelay EXCEPT !.depId = rl[r].depId, !.res = rl[r].res,
                      !.failures = rl[r].failures,
                      !.concurrent = rl[r].concurrent,
                      !.out = Append(out, event)]

\* One more fetch or poll of the stream has thrown.
OneMoreFailure(r) == IF rl[r].failures < 2 THEN rl[r].failures + 1 ELSE 2

\* The generator ended: the route enqueues "complete" and closes; otherwise
\* the generator goes on after its yield, with the completion check.
AfterChunk(r, out) ==
    IF rl[r].genDone THEN Closed(r, out, CompleteEvent)
    ELSE [rl[r] EXCEPT !.pc = "g_status", !.newStatus = "none", !.out = out]

\* streamBuildLogs up to its loop: getAccessToken and getBuildStatus. A
\* failure of either reaches the route's catch, which closes the stream.
GenInit(r) ==
    /\ rl[r].pc = "g_init"
    /\ \E failed \in BOOLEAN, build \in BuildStates :
         /\ Reached(rl[r].buildId, build)
         /\ builds' = [builds EXCEPT ![rl[r].buildId] = build]
         /\ IF failed
            THEN rl' = [rl EXCEPT ![r] = Closed(r, rl[r].out, ErrorEvent)]
            ELSE IF ~build.logUrl
            THEN rl' = [rl EXCEPT
                          ![r].pc = "r_status",
                          ![r].acc = Append(@, NoLogsYet),
                          ![r].out = Append(@, LogEvent(<<NoLogsYet>>)),
                          ![r].genDone = TRUE]
            ELSE rl' = [rl EXCEPT ![r].pc = "g_fetch"]
    /\ UNCHANGED <<call, dp, wh, deployments, projects, cr, kn, overlap, served>>

\* The ranged fetch of the log object. A response that is not ok, or that
\* holds no text, yields nothing; a fetch that throws is caught, and the loop
\* starts again at the fetch.
GenFetch(r) ==
    /\ rl[r].pc = "g_fetch"
    /\ \E outcome \in {"ok", "not ok", "throws"}, build \in BuildStates :
         LET text == LogBytes(build, rl[r].lastSize) IN
         /\ Reached(rl[r].buildId, build)
         /\ builds' = [builds EXCEPT ![rl[r].buildId] = build]
         /\ IF outcome = "throws"
            THEN rl' = [rl EXCEPT ![r].failures = OneMoreFailure(r)]
            ELSE IF outcome = "ok" /\ Len(text) > 0
            THEN rl' = [rl EXCEPT ![r].pc = "r_status",
                                  ![r].acc = @ \o text,
                                  ![r].out = Append(@, LogEvent(text)),
                                  ![r].lastSize = @ + Len(text)]
            ELSE rl' = [rl EXCEPT ![r].pc = "g_status"]
    /\ UNCHANGED <<call, dp, wh, deployments, projects, cr, kn, overlap, served>>

\* The generator's completion check; a getBuildStatus that throws is caught
\* and the loop starts again.
GenStatus(r) ==
    /\ rl[r].pc = "g_status"
    /\ \E failed \in BOOLEAN, build \in BuildStates :
         /\ Reached(rl[r].buildId, build)
         /\ builds' = [builds EXCEPT ![rl[r].buildId] = build]
         /\ IF failed
            THEN rl' = [rl EXCEPT ![r].pc = "g_fetch",
                                  ![r].failures = OneMoreFailure(r)]
            ELSE IF build.status
                      \in {"SUCCESS", "FAILURE", "CANCELLED", "TIMEOUT"}
            THEN rl' = [rl EXCEPT
                          ![r].pc = "r_status",
                          ![r].acc = Append(@, BuildEndedMark),
                          ![r].out = Append(@, LogEvent(<<BuildEndedMark>>)),
                          ![r].genDone = TRUE]
            ELSE rl' = [rl EXCEPT ![r].pc = "g_fetch"]
    /\ UNCHANGED <<call, dp, wh, deployments, projects, cr, kn, overlap, served>>

\* The route's getBuildStatus after each chunk: a failure reaches the catch
\* and closes the stream; otherwise the mapped status is compared with the
\* status of the route's copy of the deployment.
RouteStatus(r) ==
    /\ rl[r].pc = "r_status"
    /\ \E failed \in BOOLEAN, build \in BuildStates :
         LET newStatus == mapBuildStatusToDeploymentStatus(build.status) IN
         /\ Reached(rl[r].buildId, build)
         /\ builds' = [builds EXCEPT ![rl[r].buildId] = build]
         /\ IF failed
            THEN rl' = [rl EXCEPT ![r] =
                          [Closed(r, rl[r].out, ErrorEvent) EXCEPT
                              !.failures = OneMoreFailure(r)]]
            ELSE IF newStatus # rl[r].status
            THEN rl' = [rl EXCEPT ![r].pc = "r_write",
                                  ![r].newStatus = newStatus]
            ELSE rl' = [rl EXCEPT ![r] = AfterChunk(r, rl[r].out)]
    /\ UNCHANGED <<call, dp, wh, deployments, projects, cr, kn, overlap, served>>

\* prisma.deployment.update({ status: newStatus }), and the status event.
RouteWrite(r) ==
    LET out == Append(rl[r].out, StatusEvent(rl[r].newStatus)) IN
    /\ rl[r].pc = "r_write"
    /\ deployments' = [deployments EXCEPT ![rl[r].depId].status = rl[r].newStatus]
    /\ IF rl[r].newStatus \in {"LIVE", "FAILED"}
       THEN rl' = [rl EXCEPT ![r].pc = "r_final", ![r].out = out]
       ELSE rl' = [rl EXCEPT ![r] = AfterChunk(r, out)]
    /\ UNCHANGED <<call, dp, wh, projects, builds, cr, kn, overlap, served>>

\* prisma.deployment.update({ buildLogs, completedAt, cloudRunUrl? })
RouteFinal(r) ==
    /\ rl[r].pc = "r_final"
    /\ deployments' = [deployments EXCEPT
          ![rl[r].depId].buildLogs = rl[r].acc,
          ![rl[r].depId].completedAt = now,
          ![rl[r].depId].cloudRunUrl =
              IF rl[r].newStatus = "LIVE"
              THEN ProjectCfg(deployments[rl[r].depId].projectId).subdomain
              ELSE @]
    /\ rl' = [rl EXCEPT ![r].pc = "r_project"]
    /\ UNCHANGED <<call, dp, wh, projects, builds, cr, kn, overlap, served>>

\* A faulty RouteProject: the project is written only for LIVE.
RouteProjectLiveOnly(r) ==
    /\ rl[r].pc = "r_project"
    /\ projects' = IF rl[r].newStatus = "LIVE"
                   THEN [projects EXCEPT
                           ![deployments[rl[r].depId].projectId].status = "DEPLOYED",
                           ![deployments[rl[r].depId].projectId].lastDeployedAt = now]
                   ELSE projects
    /\ rl' = [rl EXCEPT ![r] = AfterChunk(r, rl[r].out)]
    /\ UNCHANGED <<call, dp, wh, deployments, builds, cr, kn, overlap, served>>

\* prisma.project.update({ status, lastDeployedAt? })
RouteProject(r) ==
    /\ rl[r].pc = "r_project"
    /\ projects' = [projects EXCEPT
          ![deployments[rl[r].depId].projectId].status =
              IF rl[r].newStatus = "LIVE" THEN "DEPLOYED" ELSE "FAILED",
          ![deployments[rl[r].depId].projectId].lastDeployedAt =
              IF rl[r].newStatus = "LIVE" THEN now ELSE @]
    /\ rl' = [rl EXCEPT ![r] = AfterChunk(r, rl[r].out)]
    /\ UNCHANGED <<call, dp, wh, deployments, builds, cr, kn, overlap, served>>

----------------------------------------------------------------------------
Next ==
    \/ \E id \in ProjectIds, user \in Callers : ManualPost(id, user)
    \/ \E ok \in BOOLEAN, event \in {"push", "ping"},
          branch \in PushBranches, repoUrl \in PushRepos :
          WebhookPost(ok, event, branch, repoUrl)
    \/ WebhookRespond
    \/ \E c \in Creators : CdFind(c)
    \/ \E c \in Creators : CdInsert(c)
    \/ \E c \in Creators : CdProject(c)
    \/ \E c \in Creators : CdSubmit(c)
    \/ \E c \in Creators : CdStarted(c)
    \/ \E c \in Creators : CdFailedDep(c)
    \/ \E c \in Creators : CdFailedProj(c)
    \/ \E k \in Cancellers, d \in RequestIds, user \in Callers :
          CancelRead(k, d, user)
    \/ \E k \in Cancellers : CancelBackend(k)
    \/ \E k \in Cancellers : CancelUpdate(k)
    \/ \E r \in Relays, d \in RequestIds, user \in Callers : LogsGet(r, d, user)
    \/ \E r \in Relays : GenInit(r)
    \/ \E r \in Relays : GenFetch(r)
    \/ \E r \in Relays : GenStatus(r)
    \/ \E r \in Relays : RouteStatus(r)
    \/ \E r \in Relays : RouteWrite(r)
    \/ \E r \in Relays : RouteFinal(r)
    \/ \E r \in Relays : RouteProject(r)

Spec == Init /\ [][Next]_vars

----------------------------------------------------------------------------
(* Cancel and log relay on a deployment that is being built *)

\* The state createDeployment leaves when alice's manual request for p1 has
\* returned: the deployment is CLONING with its build queued at the backend.
\* The requests counted are those that come after.
RelayInit ==
    /\ call = NoCall
    /\ deployments =
          <<[projectId |-> "p1", version |-> 1, status |-> "CLONING",
             buildId |-> 1, errorMessage |-> "", buildLogs |-> <<>>,
             cloudRunUrl |-> "", createdAt |-> 1, startedAt |-> 1,
             completedAt |-> 0]>>
    /\ projects = [p \in SmallTable |->
                     IF p = "p1" THEN [NewProject EXCEPT !.status = "BUILDING"]
                     ELSE NewProject]
    /\ builds = <<[status |-> "QUEUED", logUrl |-> FALSE, logLen |-> 0]>>
    /\ cr = [c \in Creators |-> IdleCreator]
    /\ kn = [k \in Cancellers |-> IdleCanceller]
    /\ rl = [r \in Relays |-> IdleRelay]
    /\ wh = IdleWebhook
    /\ dp = [res |-> "create", projectId |-> "p1", user |-> "alice"]
    /\ overlap = FALSE
    /\ served = [h \in Routes |-> 0]

\* The steps of a handler that has been invoked.
CancelStep(k) == CancelBackend(k) \/ CancelUpdate(k)

RelayStep(r) ==
    \/ GenInit(r)
    \/ GenFetch(r)
    \/ GenStatus(r)
    \/ RouteStatus(r)
    \/ RouteWrite(r)
    \/ RouteFinal(r)
    \/ RouteProject(r)

RelayNext ==
    \/ \E k \in Cancellers, d \in RequestIds, user \in Callers :
          CancelRead(k, d, user)
    \/ \E k \in Cancellers : CancelStep(k)
    \/ \E r \in Relays, d \in RequestIds, user \in Callers : LogsGet(r, d, user)
    \/ \E r \in Relays : RelayStep(r)

\* The runtime resumes every handler whose awaited call has settled: no
\* invoked handler is left waiting for ever. Nothing is assumed of the
\* requests or of the backend.
RelaySpec ==
    /\ RelayInit
    /\ [][RelayNext]_vars
    /\ \A k \in Cancellers : WF_vars(CancelStep(k))
    /\ \A r \in Relays : WF_vars(RelayStep(r))

----------------------------------------------------------------------------
(* createDeployment on its own, with a storage that may fail *)

\* createDeployment is called for any project id, known or not.
CreateCall(id) ==
    /\ Arrives("deploy")
    /\ FreeCreators # {}
    /\ cr' = [cr EXCEPT ![Min(FreeCreators)] =
                 [IdleCreator EXCEPT !.pc = "cd_find", !.projectId = id]]
    /\ dp' = [res |-> "create", projectId |-> id, user |-> "none"]
    /\ overlap' = (overlap \/ \E o \in Creators : InCreate(o))
    /\ UNCHANGED <<call, wh, deployments, projects, builds, kn, rl>>

\* prisma.project.update({ status: "BUILDING" }) rejects: the call is not
\* inside the try block, so createDeployment throws.
CdProjectThrows(c) ==
    /\ cr[c].pc = "cd_project"
    /\ cr' = [cr EXCEPT ![c] = IdleCreator]
    /\ wh' = Settled(c, FALSE)
    /\ UNCHANGED <<call, dp, deployments, projects, builds, kn, rl, overlap,
                   served>>

\* prisma.deployment.update({ buildId, status: "CLONING", startedAt })
\* rejects: the call is inside the try block, so the catch block runs.
CdStartedThrows(c) ==
    /\ cr[c].pc = "cd_started"
    /\ cr' = [cr EXCEPT ![c].pc = "cd_failed_dep",
                        ![c].err = "Storage error"]
    /\ UNCHANGED <<call, dp, wh, deployments, projects, builds, kn, rl,
                   overlap, served>>

CreateNext ==
    \/ \E id \in ProjectIds : CreateCall(id)
    \/ \E c \in Creators : CdFind(c)
    \/ \E c \in Creators : CdInsert(c)
    \/ \E c \in Creators : CdProject(c)
    \/ \E c \in Creators : CdProjectThrows(c)
    \/ \E c \in Creators : CdSubmit(c)
    \/ \E c \in Creators : CdStarted(c)
    \/ \E c \in Creators : CdStartedThrows(c)
    \/ \E c \in Creators : CdFailedDep(c)
    \/ \E c \in Creators : CdFailedProj(c)

CreateSpec == Init /\ [][CreateNext]_vars

----------------------------------------------------------------------------
(* Two log relays on a deployment that is being built *)

TwoRelays == {"r1", "r2"}

\* As RelayInit, with two slots for log streams: two observers may watch the
\* same deployment.
TwoRelayInit ==
    /\ call = NoCall
    /\ deployments =
          <<[projectId |-> "p1", version |-> 1, status |-> "CLONING",
             buildId |-> 1, errorMessage |-> "", buildLogs |-> <<>>,
             cloudRunUrl |-> "", createdAt |-> 1, startedAt |-> 1,
             completedAt |-> 0]>>
    /\ projects = [p \in SmallTable |->
                     IF p = "p1" THEN [NewProject EXCEPT !.status = "BUILDING"]
                     ELSE NewProject]
    /\ builds = <<[status |-> "QUEUED", logUrl |-> FALSE, logLen |-> 0]>>
    /\ cr = [c \in Creators |-> IdleCreator]
    /\ kn = [k \in Cancellers |-> IdleCanceller]
    /\ rl = [r \in TwoRelays |-> IdleRelay]
    /\ wh = IdleWebhook
    /\ dp = [res |-> "create", projectId |-> "p1", user |-> "alice"]
    /\ overlap = FALSE
    /\ served = [h \in Routes |-> 0]

TwoRelayNext ==
    \/ \E r \in TwoRelays, d \in RequestIds, user \in Callers :
          LogsGet(r, d, user)
    \/ \E r \in TwoRelays : RelayStep(r)

TwoRelaySpec == TwoRelayInit /\ [][TwoRelayNext]_vars

----------------------------------------------------------------------------
(* The library functions on their own: one call, then its result *)

\* Status strings a backend may report, known to the mapping or not.
BackendStatusStrings ==
    {"STATUS_UNKNOWN", "PENDING", "QUEUED", "WORKING", "SUCCESS", "FAILURE",
     "INTERNAL_ERROR", "TIMEOUT", "CANCELLED", "EXPIRED", "", "success"}

MapCalls ==
    {[fn |-> "mapBuildStatusToDeploymentStatus", buildStatus |-> b,
      result |-> "pending"] : b \in BackendStatusStrings}

VerifyCalls ==
    {[fn |-> "verifyWebhookSignature", payload |-> b, signature |-> g,
      secret |-> x, env |-> e, result |-> "pending"] :
        b \in Bodies, g \in Signatures, x \in Secrets, e \in {"", "s1"}}

\* The URLs given to repoUrlMatches: nothing, an https or an ssh prefix,
\* and then any string of at most MaxUrl names, slashes and ".git".
UrlPrefixes ==
    {<<>>, <<"https://", "github.com", "/">>, <<"git@", "github.com", ":">>}
PathTokens == {"acme", "app", "App", "app2", ".git", "/"}
Urls ==
    {pre \o path : pre \in UrlPrefixes,
                   path \in UNION {[1 .. n -> PathTokens] : n \in 0 .. MaxUrl}}

\* The repository URLs of the events the URLs above are compared with.
EventUrls ==
    {AppHttpsGit, AppShorthand, <<"acme", "/", "app">>,
     <<"acme", "/", "app2">>, <<"git@", "github.com", ":", "acme", "/", "app">>,
     <<"https://", "github.com", "/", "acme">>, NoUrl, SiteHttpsGit}

\* A call of repoUrlMatches, and the call with the arguments exchanged.
MatchCalls ==
    {[fn |-> "repoUrlMatches", configuredUrl |-> a, eventUrl |-> b,
      result |-> "pending", exchanged |-> "pending"] :
        a \in Urls, b \in EventUrls}

\* A stored deployment of project p created at time t, as getDeployments
\* finds it.
ListRow(p, t) ==
    [projectId |-> p, version |-> 1, status |-> "LIVE", buildId |-> 0,
     errorMessage |-> "", buildLogs |-> <<>>, cloudRunUrl |-> "",
     createdAt |-> t, startedAt |-> 0, completedAt |-> t]

\* The tables getDeployments is called on: rows of two projects in insertion
\* order; a row is no older than the rows before it, and two rows may have
\* been created within the same millisecond.
ListTables ==
    UNION {{[i \in 1 .. n |-> ListRow(ps[i], ts[i])] :
              ps \in [1 .. n -> SmallTable],
              ts \in {t \in [1 .. n -> 1 .. MaxRows] :
                        \A i \in 1 .. n - 1 : t[i] <= t[i + 1]}} :
           n \in 0 .. MaxRows}

\* prisma.deployment.findMany({where: {projectId}, orderBy: {createdAt:
\* "desc"}}) without skip and take: the ids of the project's rows, newest
\* first; rows of the same createdAt come in an order the storage chooses.
NewestFirst(projectId) ==
    LET ids == DepsOf(projectId)
        n == Cardinality(ids)
    IN  {o \in [1 .. n -> ids] :
            /\ \A i, j \in 1 .. n : i # j => o[i] # o[j]
            /\ \A i \in 1 .. n - 1 :
                  deployments[o[i]].createdAt >= deployments[o[i + 1]].createdAt}

\* A faulty getDeployments: hasMore also when the page is the last one.
getDeploymentsOneMore(rows, projectId, page, limit) ==
    LET skip == (page - 1) * limit
        found == SubSeq(rows, skip + 1, Min({skip + limit, Len(rows)}))
    IN  [deployments |-> found, total |-> Cardinality(DepsOf(projectId)),
         page |-> page, limit |-> limit,
         hasMore |-> skip + Len(found) <= Cardinality(DepsOf(projectId))]

\* getDeployments, rows being the project's rows as findMany orders them:
\* skip and take cut the page out of them, count is the number of rows.
getDeployments(rows, projectId, page, limit) ==
    LET skip == (page - 1) * limit
        found == SubSeq(rows, skip + 1, Min({skip + limit, Len(rows)}))
    IN  [deployments |-> found, total |-> Cardinality(DepsOf(projectId)),
         page |-> page, limit |-> limit,
         hasMore |-> skip + Len(found) < Cardinality(DepsOf(projectId))]

ListCalls ==
    {[fn |-> "getDeployments", projectId |-> p, page |-> page,
      limit |-> limit, returned |-> FALSE,
      result |-> [deployments |-> <<>>, total |-> 0, page |-> page,
                  limit |-> limit, hasMore |-> FALSE]] :
        p \in SmallTable, page \in 1 .. MaxRows, limit \in 0 .. MaxRows}

\* No request is in flight while a function is called on its own.
NoRequests ==
    /\ projects = [p \in SmallTable |-> NewProject]
    /\ builds = <<>>
    /\ cr = [c \in Creators |-> IdleCreator]
    /\ kn = [k \in Cancellers |-> IdleCanceller]
    /\ rl = [r \in Relays |-> IdleRelay]
    /\ wh = IdleWebhook
    /\ dp = IdleDeploy
    /\ overlap = FALSE
    /\ served = [h \in Routes |-> 0]

FnInit ==
    /\ \/ call \in MapCalls
       \/ call \in VerifyCalls
    /\ deployments = <<>>
    /\ NoRequests

MatchInit ==
    /\ call \in MatchCalls
    /\ deployments = <<>>
    /\ NoRequests

ListInit ==
    /\ call \in ListCalls
    /\ deployments \in ListTables
    /\ NoRequests

ApplyMap ==
    /\ call.fn = "mapBuildStatusToDeploymentStatus"
    /\ call.result = "pending"
    /\ call' = [call EXCEPT
                  !.result = mapBuildStatusToDeploymentStatus(call.buildStatus)]
    /\ UNCHANGED <<deployments, projects, builds, cr, kn, rl, wh, dp,
                 overlap, served>>

ApplyVerify ==
    /\ call.fn = "verifyWebhookSignature"
    /\ call.result = "pending"
    /\ call' = [call EXCEPT
                  !.result = verifyWebhookSignature(call.payload,
                                call.signature, call.secret, call.env)]
    /\ UNCHANGED <<deployments, projects, builds, cr, kn, rl, wh, dp,
                 overlap, served>>

ApplyMatch ==
    /\ call.fn = "repoUrlMatches"
    /\ call.result = "pending"
    /\ call' = [call EXCEPT
                  !.result =
                      IF repoUrlMatches(call.configuredUrl, call.eventUrl)
                      THEN "true" ELSE "false",
                  !.exchanged =
                      IF repoUrlMatches(call.eventUrl, call.configuredUrl)
                      THEN "true" ELSE "false"]
    /\ UNCHANGED <<deployments, projects, builds, cr, kn, rl, wh, dp,
                 overlap, served>>

ApplyList ==
    /\ call.fn = "getDeployments"
    /\ ~call.returned
    /\ \E rows \in NewestFirst(call.projectId) :
          call' = [call EXCEPT
                     !.returned = TRUE,
                     !.result = getDeployments(rows, call.projectId,
                                               call.page, call.limit)]
    /\ UNCHANGED <<deployments, projects, builds, cr, kn, rl, wh, dp,
                 overlap, served>>

FnNext ==
    \/ ApplyMap
    \/ ApplyVerify

FnSpec == FnInit /\ [][FnNext]_vars

\* repoUrlMatches on its own, and getDeployments on its own.
MatchNext == ApplyMatch

MatchSpec == MatchInit /\ [][MatchNext]_vars

ListNext == ApplyList

ListSpec == ListInit /\ [][ListNext]_vars

----------------------------------------------------------------------------
(* streamBuildLogs on its own: the ranged fetches of a log object *)

\* A log object is UTF-8 text, here a string of bytes of three kinds: "a"
\* is a character of one byte, "L" and "T" are the lead and the trail byte
\* of a character of two bytes.
RECURSIVE WellFormed(_)
WellFormed(bytes) ==
    IF bytes = <<>> THEN TRUE
    ELSE IF Head(bytes) = "a" THEN WellFormed(Tail(bytes))
    ELSE /\ Len(bytes) >= 2
         /\ Head(bytes) = "L"
         /\ bytes[2] = "T"
         /\ WellFormed(Tail(Tail(bytes)))

LogObjects ==
    {b \in UNION {[1 .. n -> {"a", "L", "T"}] : n \in 0 .. MaxBytes} :
        WellFormed(b)}

\* The sizes the object has while the build writes it: whole characters.
Written(log) == {n \in 0 .. Len(log) : WellFormed(SubSeq(log, 1, n))}

\* response.text() of the bytes from + 1 .. to of the object: the string of
\* the characters decoded, each with the place of its first byte. A byte
\* that is no character on its own, as a trail byte at the start of a range,
\* is decoded as U+FFFD. Each character is one UTF-16 code unit, so
\* text.length is the length of this string.
RECURSIVE Decoded(_, _, _)
Decoded(log, from, to) ==
    IF from >= to THEN <<>>
    ELSE IF log[from + 1] = "a"
    THEN <<[at |-> from + 1, char |-> "a"]>> \o Decoded(log, from + 1, to)
    ELSE IF log[from + 1] = "L" /\ from + 2 <= to /\ log[from + 2] = "T"
    THEN <<[at |-> from + 1, char |-> "LT"]>> \o Decoded(log, from + 2, to)
    ELSE <<[at |-> from + 1, char |-> "U+FFFD"]>>
            \o Decoded(log, from + 1, to)

\* A call of streamBuildLogs on a build with a log object: size is the size
\* of the object so far, lastSize the generator's variable, chunks the texts
\* it has yielded and fetched the size of the object at its last yield.
StreamCalls ==
    {[fn |-> "streamBuildLogs", log |-> b, size |-> 0, lastSize |-> 0,
      chunks |-> <<>>, fetched |-> 0] : b \in LogObjects}

StreamInit ==
    /\ call \in StreamCalls
    /\ deployments = <<>>
    /\ NoRequests

\* One fetch with the header Range: bytes=lastSize-, the object having grown
\* to newSize by then. A range that starts at or after the end of the object
\* is not satisfiable: the response is not ok.
StreamFetch ==
    /\ call.fn = "streamBuildLogs"
    /\ \E newSize \in Written(call.log), ok \in BOOLEAN :
         LET text == Decoded(call.log, call.lastSize, newSize) IN
         /\ newSize >= call.size
         /\ call' = IF ok /\ Len(text) > 0
                    THEN [call EXCEPT !.size = newSize,
                                      !.chunks = Append(@, text),
                                      !.lastSize = @ + Len(text),
                                      !.fetched = newSize]
                    ELSE [call EXCEPT !.size = newSize]
    /\ UNCHANGED <<deployments, projects, builds, cr, kn, rl, wh, dp,
                   overlap, served>>

StreamNext == StreamFetch

StreamSpec == StreamInit /\ [][StreamNext]_vars

----------------------------------------------------------------------------
(* The webhook route on its own, with the large projects table *)

HookInit ==
    /\ call = NoCall
    /\ deployments = <<>>
    /\ projects = [p \in LargeTable |-> NewProject]
    /\ builds = <<>>
    /\ cr = [c \in Creators |-> IdleCreator]
    /\ kn = [k \in Cancellers |-> IdleCanceller]
    /\ rl = [r \in Relays |-> IdleRelay]
    /\ wh = IdleWebhook
    /\ dp = IdleDeploy
    /\ overlap = FALSE
    /\ served = [h \in Routes |-> 0]

HookNext ==
    \/ \E ok \in BOOLEAN, event \in {"push", "ping"},
          branch \in PushBranches, repoUrl \in PushRepos :
          WebhookPost(ok, event, branch, repoUrl)
    \/ WebhookRespond
    \/ \E c \in Creators : CdFind(c)
    \/ \E c \in Creators : CdInsert(c)
    \/ \E c \in Creators : CdProject(c)
    \/ \E c \in Creators : CdSubmit(c)
    \/ \E c \in Creators : CdStarted(c)
    \/ \E c \in Creators : CdFailedDep(c)
    \/ \E c \in Creators : CdFailedProj(c)

HookSpec == HookInit /\ [][HookNext]_vars

----------------------------------------------------------------------------
(* Properties *)

\* C1: at every moment, under any interleaving of requests, a project has at
\* most one deployment whose status is non-terminal.
C1_SingleActive ==
    \A p \in Projects : Cardinality(ActiveOf(p)) <= 1

\* C2: a createDeployment that is called for a project which has a
\* non-terminal deployment fails with a conflict and mutates nothing: it
\* never gets as far as having inserted a deployment or written the project.
C2_ConflictBeforeInsert ==
    \A c \in Creators :
        cr[c].activeAtStart => cr[c].pc \in {"cd_find", "cd_insert"}

\* C3: once a deployment's status is LIVE, FAILED or CANCELLED, no step of
\* any operation (cancel, status update, log relay) changes that status.
C3_TerminalIsFinal ==
    [][\A d \in DepIds :
          deployments[d].status \in Terminal
             => deployments'[d].status = deployments[d].status]_vars

\* C4: when no createDeployment starts while another is running, the
\* deployments of a project carry, in order of creation, the versions
\* 1, 2, ..., n: the first gets 1 and each next one the latest plus one.
C4_SequentialVersions ==
    ~overlap =>
        \A p \in Projects : \A d \in DepsOf(p) :
            deployments[d].version = Cardinality({e \in DepsOf(p) : e <= d})

\* C4 happens: a project got its second deployment, sequentially, after its
\* first one had ended.
C4_Witness ==
    /\ ~overlap
    /\ \E d, e \in DepsOf("p1") :
          /\ d < e
          /\ deployments[d].status \in Terminal
          /\ deployments[e].version = 2

\* C5: within one project no two deployments have the same version, also
\* when createDeployment calls interleave.
C5_VersionUnique ==
    \A d, e \in DepIds :
        (d # e /\ deployments[d].projectId = deployments[e].projectId)
            => deployments[d].version # deployments[e].version

\* C6: when createDeployment returns after a failed submission (it rethrows),
\* the deployment is stored as FAILED with the error message and a
\* completion timestamp, and the project's status is FAILED.
C6_SubmitFailureRecorded ==
    [][\A c \in Creators :
          (cr[c].pc = "cd_failed_proj" /\ cr'[c].pc = "idle")
             => /\ deployments'[cr[c].depId].status = "FAILED"
                /\ deployments'[cr[c].depId].errorMessage = cr[c].err
                /\ deployments'[cr[c].depId].completedAt # 0
                /\ projects'[cr[c].projectId].status = "FAILED"]_vars

\* C7: when createDeployment returns after an accepted submission, the
\* deployment is stored as CLONING with its start timestamp and the backend's
\* build id, and the project's status is BUILDING.
C7_SubmitSuccessRecorded ==
    [][\A c \in Creators :
          (cr[c].pc = "cd_started" /\ cr'[c].pc = "idle")
             => /\ deployments'[cr[c].depId].status = "CLONING"
                /\ deployments'[cr[c].depId].startedAt # 0
                /\ cr[c].buildId # 0
                /\ deployments'[cr[c].depId].buildId = cr[c].buildId
                /\ projects'[cr[c].projectId].status = "BUILDING"]_vars

\* A cancel request is answered or taken up in this step by slot k.
CancelArrives(k) ==
    /\ kn[k].pc = "idle"
    /\ served'["cancel"] # served["cancel"]

\* C8: a cancel of a non-terminal deployment ends with the deployment stored
\* as CANCELLED with a completion timestamp, whether or not the backend
\* cancellation succeeded: the backend step always leads on to the status
\* update, and the call returns only through that update.
C8_CancelEndsCancelled ==
    [][\A k \in Cancellers :
          /\ (CancelArrives(k) /\ kn'[k].depId \in DepIds
                /\ deployments[kn'[k].depId].status \in NonTerminal)
                => kn'[k].res \in {"none", "401", "403"}
          /\ (kn[k].pc = "k_backend" /\ kn'[k] # kn[k])
                => /\ kn'[k].pc = "k_update"
                   /\ kn'[k].depId = kn[k].depId
          /\ (kn[k].pc = "k_update" /\ kn'[k] # kn[k])
                => /\ kn'[k].pc = "idle"
                   /\ kn'[k].res = "200"
                   /\ deployments'[kn[k].depId].status = "CANCELLED"
                   /\ deployments'[kn[k].depId].completedAt # 0]_vars

\* C8 happens: a cancel has returned, the deployment is CANCELLED, and its
\* build was not cancelled at the backend.
C8_Witness ==
    \E k \in Cancellers :
        /\ kn[k].pc = "idle"
        /\ kn[k].res = "200"
        /\ deployments[kn[k].depId].status = "CANCELLED"
        /\ deployments[kn[k].depId].buildId # 0
        /\ builds[deployments[kn[k].depId].buildId].status # "CANCELLED"

C10_NoBackwardMove ==
    [][\A d \in DepIds :
          (deployments[d].status \in NonTerminal
             /\ deployments'[d].status \in NonTerminal)
             => Rank(deployments'[d].status) >= Rank(deployments[d].status)]_vars

\* C11: every deployment whose stored status is LIVE, FAILED or CANCELLED
\* has a completion timestamp that is set and not earlier than its creation
\* timestamp, whichever path made it terminal.
C11_TerminalHasCompletedAt ==
    \A d \in DepIds :
        deployments[d].status \in Terminal
            => /\ deployments[d].completedAt # 0
               /\ deployments[d].completedAt >= deployments[d].createdAt

\* C12: when an operation has taken a deployment to LIVE and written the
\* project, the project is DEPLOYED, its last-deployed time is set and its
\* service name is the name derived from its subdomain.
C12_LiveUpdatesProject ==
    [][\A r \in Relays :
          (rl[r].pc = "r_project" /\ rl[r].newStatus = "LIVE"
             /\ rl'[r].pc # "r_project")
             => LET p == deployments[rl[r].depId].projectId IN
                /\ projects'[p].status = "DEPLOYED"
                /\ projects'[p].lastDeployedAt # 0
                /\ projects'[p].cloudRunService
                      = <<"project-", ProjectCfg(p).subdomain>>]_vars

\* C13: an operation that takes a deployment to FAILED goes on to set the
\* owning project's status to FAILED: createDeployment's catch block after
\* its FAILED update, the log relay after its FAILED update, and
\* updateDeploymentStatus for FAILED.
C13_FailedUpdatesProject ==
    [][/\ \A c \in Creators :
             /\ (cr[c].pc = "cd_failed_dep" /\ cr'[c] # cr[c])
                   => /\ deployments'[cr[c].depId].status = "FAILED"
                      /\ cr'[c].pc = "cd_failed_proj"
                      /\ cr'[c].projectId = cr[c].projectId
             /\ (cr[c].pc = "cd_failed_proj" /\ cr'[c] # cr[c])
                   => projects'[cr[c].projectId].status = "FAILED"
       /\ \A r \in Relays :
             /\ (rl[r].pc = "r_write" /\ rl[r].newStatus = "FAILED"
                   /\ rl'[r] # rl[r])
                   => /\ deployments'[rl[r].depId].status = "FAILED"
                      /\ rl'[r].pc = "r_final"
                      /\ rl'[r].newStatus = "FAILED"
             /\ (rl[r].pc = "r_final" /\ rl'[r] # rl[r])
                   => /\ rl'[r].pc = "r_project"
                      /\ rl'[r].newStatus = rl[r].newStatus
                      /\ rl'[r].depId = rl[r].depId
             /\ (rl[r].pc = "r_project" /\ rl[r].newStatus = "FAILED"
                   /\ rl'[r] # rl[r])
                   => projects'[deployments[rl[r].depId].projectId].status
                         = "FAILED"
       /\ \A d \in DepIds :
             ProjectAfter(d, "FAILED")[deployments[d].projectId].status
                = "FAILED"]_vars

\* C13 happens: the log relay took a deployment to FAILED after a failed
\* build, stored the transcript, and the project is FAILED.
C13_Witness ==
    \E d \in DepIds :
        /\ deployments[d].status = "FAILED"
        /\ deployments[d].buildId # 0
        /\ builds[deployments[d].buildId].status \in {"FAILURE", "INTERNAL_ERROR"}
        /\ deployments[d].completedAt # 0
        /\ projects[deployments[d].projectId].status = "FAILED"
        /\ \A r \in Relays : rl[r].pc \notin {"r_write", "r_final", "r_project"}

\* C14: a step that takes a deployment to CANCELLED leaves every field of
\* every project unchanged.
C14_CancelledKeepsProject ==
    [][(\E d \in DepIds :
           /\ deployments[d].status # "CANCELLED"
           /\ deployments'[d].status = "CANCELLED")
          => projects' = projects]_vars

\* C14 happens: a cancel has returned, its deployment is CANCELLED, and the
\* project still has the status BUILDING that createDeployment gave it.
C14_Witness ==
    \E k \in Cancellers :
        /\ kn[k].res = "200"
        /\ deployments[kn[k].depId].status = "CANCELLED"
        /\ projects[deployments[kn[k].depId].projectId].status = "BUILDING"

\* C15: mapBuildStatusToDeploymentStatus maps QUEUED and PENDING to QUEUED,
\* WORKING to BUILDING, SUCCESS to LIVE, FAILURE, TIMEOUT and INTERNAL_ERROR
\* to FAILED, CANCELLED to CANCELLED and every other string to BUILDING, so
\* no unrecognized string maps to a terminal status.
C15_MappingTable ==
    (call.fn = "mapBuildStatusToDeploymentStatus" /\ call.result # "pending")
        => LET b == call.buildStatus IN
           /\ b \in {"QUEUED", "PENDING"} => call.result = "QUEUED"
           /\ b = "WORKING" => call.result = "BUILDING"
           /\ b = "SUCCESS" => call.result = "LIVE"
           /\ b \in {"FAILURE", "TIMEOUT", "INTERNAL_ERROR"}
                 => call.result = "FAILED"
           /\ b = "CANCELLED" => call.result = "CANCELLED"
           /\ b \notin {"QUEUED", "PENDING", "WORKING", "SUCCESS", "FAILURE",
                        "TIMEOUT", "INTERNAL_ERROR", "CANCELLED"}
                 => (call.result = "BUILDING" /\ call.result \notin Terminal)

\* C15 happens: a status the mapping does not know was mapped to BUILDING.
C15_Witness ==
    /\ call.fn = "mapBuildStatusToDeploymentStatus"
    /\ call.buildStatus = "EXPIRED"
    /\ call.result = "BUILDING"

\* Strings that differ from s in exactly one position.
OneOff(s, alphabet) ==
    {[s EXCEPT ![i] = x] : i \in DOMAIN s, x \in alphabet} \ {s}

\* C19: with a configured secret, verifyWebhookSignature returns true if and
\* only if the header is "sha256=" followed by the hex HMAC of the body under
\* that secret; a call that returned true returns false once any single byte
\* of the body or any single character of the signature is changed.
C19_VerifiesExactlyTheDigest ==
    (call.fn = "verifyWebhookSignature" /\ call.result # "pending")
        => LET webhookSecret ==
                   IF call.secret # "" THEN call.secret ELSE call.env
           IN  webhookSecret # "" =>
               /\ call.result = "true"
                     <=> /\ call.signature.present
                         /\ call.signature.text
                              = <<"sha256=">>
                                  \o hmacHex(webhookSecret, call.payload)
               /\ call.result = "true" =>
                     /\ \A b \in OneOff(call.payload, {0, 1}) :
                           verifyWebhookSignature(b, call.signature,
                               call.secret, call.env) = "false"
                     /\ \A t \in OneOff(call.signature.text, SigTokens) :
                           verifyWebhookSignature(call.payload,
                               [call.signature EXCEPT !.text = t],
                               call.secret, call.env) = "false"

\* C19 happens: a non-empty body signed under the environment's secret
\* verified, with no secret argument, as in the webhook route.
C19_Witness ==
    /\ call.fn = "verifyWebhookSignature"
    /\ call.result = "true"
    /\ call.secret = ""
    /\ call.env = "s1"
    /\ Len(call.payload) = MaxBody

\* C20: verifyWebhookSignature never throws, and returns false when no
\* secret is configured (neither argument nor environment), when the header
\* is absent, and when the signature's length differs from the digest's.
C20_FailsClosed ==
    (call.fn = "verifyWebhookSignature" /\ call.result # "pending")
        => /\ call.result \in {"true", "false"}
           /\ (call.secret = "" /\ call.env = "") => call.result = "false"
           /\ ~call.signature.present => call.result = "false"
           /\ byteLength(call.signature.text) # 7 + DigestLen
                 => call.result = "false"

\* C20 happens: with a secret configured, a header that is one character
\* short of a digest was answered false.
C20_Witness ==
    /\ call.fn = "verifyWebhookSignature"
    /\ call.result = "false"
    /\ call.env = "s1"
    /\ call.signature.present
    /\ byteLength(call.signature.text) = 7 + DigestLen - 1
    /\ Head(call.signature.text) = "sha256="

\* A webhook delivery arrives in this step.
HookArrives ==
    /\ wh.pc = "idle"
    /\ wh'.deliveries # wh.deliveries

\* C16: a webhook delivery starts createDeployment only if its signature
\* verified and its event is push; a delivery whose signature did not verify
\* is answered 401 and a verified delivery of another event is answered 200
\* with a message, both without any change of state; and deployments and
\* projects change only through createDeployment calls that a delivery
\* started.
C16_OnlyVerifiedPushActs ==
    [][/\ HookArrives =>
             /\ ~wh'.signatureOk
                   => /\ wh'.res = "401"
                      /\ wh'.pc = "idle"
                      /\ UNCHANGED <<deployments, projects, builds, cr>>
             /\ (wh'.signatureOk /\ wh'.event # "push")
                   => /\ wh'.res = "200: event not handled"
                      /\ wh'.pc = "idle"
                      /\ UNCHANGED <<deployments, projects, builds, cr>>
             /\ cr' # cr => (wh'.signatureOk /\ wh'.event = "push")
       /\ (deployments' # deployments \/ projects' # projects)
             => \E c \in Creators :
                   /\ cr[c].hook
                   /\ cr'[c] # cr[c]
                   /\ wh.signatureOk
                   /\ wh.event = "push"]_vars

\* C16 happens: after a verified push had created a deployment, a push whose
\* signature did not verify was answered 401.
C16_Witness ==
    /\ wh.res = "401"
    /\ wh.event = "push"
    /\ deployments # <<>>

\* The projects the claim says a push triggers.
C17_Triggered ==
    {p \in Projects :
        /\ ProjectCfg(p).branch = wh.branch
        /\ ProjectCfg(p).enabled
        /\ ProjectCfg(p).autoDeploy
        /\ repoUrlMatches(ProjectCfg(p).repoUrl, wh.repoUrl)}

\* The scenario of C17: a push to main of acme/app, which p1 and p3 build,
\* p3 with auto-deploy off, has been answered.
C17_Scenario ==
    /\ wh.pc = "idle"
    /\ wh.res = "200: Webhook processed"
    /\ wh.branch = "main"
    /\ wh.repoUrl = AppShorthand

\* C17 as stated: for a verified push, createDeployment is called for a
\* project if and only if its branch is the event's, its webhook is enabled,
\* its auto-deploy flag is set and its repository is the event's; and in the
\* scenario the response reports triggered 1, failed 0.
C17_AsStated ==
    /\ (wh.signatureOk /\ wh.event = "push") => wh.matched = C17_Triggered
    /\ C17_Scenario => (wh.triggered = 1 /\ wh.failed = 0)

\* C17 amended: the same equivalence; in the scenario createDeployment ran
\* for p1 alone and inserted one deployment, and the response reports
\* triggered 1, failed 0 exactly when that deployment's build submission was
\* accepted, and triggered 0, failed 1 when it failed.
C17_Amended ==
    /\ (wh.signatureOk /\ wh.event = "push") => wh.matched = C17_Triggered
    /\ wh.pc = "wait"
          => {cr[c].projectId : c \in {x \in Creators : cr[x].hook}}
                \subseteq wh.matched
    /\ C17_Scenario =>
          /\ wh.matched = {"p1"}
          /\ DepsOf("p3") = {}
          /\ DepsOf("p1") # {}
          /\ wh.triggered + wh.failed = 1
          /\ wh.triggered = 1
                <=> deployments[Max(DepsOf("p1"))].status = "CLONING"
          /\ wh.failed = 1
                <=> deployments[Max(DepsOf("p1"))].status = "FAILED"

\* C17 happens: the scenario's push was answered with triggered 1, failed 0.
C17_Witness ==
    /\ C17_Scenario
    /\ wh.triggered = 1
    /\ wh.failed = 0
    /\ Cardinality(DepsOf("p1")) = 1

\* C18: while the route waits, every matched project's createDeployment is
\* running or has settled, whatever became of the others; once all have
\* settled the route answers with the success summary, in which triggered
\* plus failed is the number of matched projects.
C18_FailuresIsolated ==
    /\ wh.pc = "wait"
          => Cardinality({c \in Creators : cr[c].hook /\ cr[c].pc # "idle"})
                + wh.triggered + wh.failed = Cardinality(wh.matched)
    /\ (wh.pc = "idle" /\ wh.matched # {})
          => /\ wh.res = "200: Webhook processed"
             /\ wh.triggered + wh.failed = Cardinality(wh.matched)
             /\ \A c \in Creators : cr[c].pc = "idle" \/ ~cr[c].hook

\* C18 happens: a push that matched two projects was answered with
\* triggered 1, failed 1.
C18_Witness ==
    /\ wh.pc = "idle"
    /\ wh.res = "200: Webhook processed"
    /\ Cardinality(wh.matched) = 2
    /\ wh.triggered = 1
    /\ wh.failed = 1

\* The names of owners and repositories, and the ways of writing the
\* repository of an owner: shorthand or a full URL, with ".git" or without.
C21_Names == {"acme", "app", "App", "app2"}
C21_SameName(x, y) == x = y \/ {x, y} = {"app", "App"}
C21_Written(owner, repo) ==
    {pre \o <<owner, "/", repo>> \o git :
        pre \in UrlPrefixes, git \in {<<>>, <<".git">>}}

\* C21: repoUrlMatches gives the same answer with its arguments exchanged;
\* it is true exactly when both arguments parse and the pairs are equal
\* ignoring letter case, and never when an argument does not parse; two
\* written forms of repositories match exactly when owner and repo are the
\* same names ignoring letter case, however each is written; the full URL of
\* acme/app ending in .git matches acme/App, and acme/app does not match
\* acme/app2.
C21_RepoEquivalence ==
    /\ (call.fn = "repoUrlMatches" /\ call.result # "pending")
          => LET a == call.configuredUrl
                 b == call.eventUrl
                 pa == parseGitHubUrl(a)
                 pb == parseGitHubUrl(b)
             IN  /\ call.result = call.exchanged
                 /\ call.result \in {"true", "false"}
                 /\ (pa = <<>> \/ pb = <<>>) => call.result = "false"
                 /\ (pa # <<>> /\ pb # <<>>)
                       => (call.result = "true"
                             <=> /\ toLowerCase(pa[1]) = toLowerCase(pb[1])
                                 /\ toLowerCase(pa[2]) = toLowerCase(pb[2]))
                 /\ \A o1, r1 \in C21_Names :
                       a \in C21_Written(o1, r1)
                          => \A o2, r2 \in C21_Names :
                                b \in C21_Written(o2, r2)
                                   => (call.result = "true"
                                         <=> /\ C21_SameName(o1, o2)
                                             /\ C21_SameName(r1, r2))
    /\ repoUrlMatches(AppHttpsGit, AppShorthand)
    /\ ~repoUrlMatches(<<"acme", "/", "app">>, <<"acme", "/", "app2">>)

\* C21 happens: the full URL of acme/App ending in .git was compared with
\* the shorthand acme/app, and they matched.
C21_Witness ==
    /\ call.fn = "repoUrlMatches"
    /\ call.configuredUrl = <<"https://", "github.com", "/", "acme", "/",
                              "App", ".git">>
    /\ call.eventUrl = <<"acme", "/", "app">>
    /\ call.result = "true"

\* C28: a manual trigger for a project, and a cancel of a deployment, that
\* an authenticated user other than the project's owner requests is answered
\* 403; it changes no deployment, no project and no build, and starts neither
\* createDeployment nor cancelDeployment.
C28_NonOwnerForbidden ==
    [][/\ (served'["deploy"] # served["deploy"]
             /\ dp'.user \in Users
             /\ dp'.projectId \in Projects
             /\ ProjectCfg(dp'.projectId).owner # dp'.user)
          => /\ dp'.res = "403"
             /\ UNCHANGED <<deployments, projects, builds, cr, kn>>
       /\ \A k \in Cancellers :
             (CancelArrives(k)
                /\ kn'[k].user \in Users
                /\ kn'[k].depId \in DepIds
                /\ ProjectCfg(deployments[kn'[k].depId].projectId).owner
                      # kn'[k].user)
             => /\ kn'[k].res = "403"
                /\ kn'[k].pc = "idle"
                /\ UNCHANGED <<deployments, projects, builds, cr>>]_vars

\* C28 happens: bob asked for the cancellation of a deployment of alice's
\* project that had not ended, and was answered 403.
C28_Witness ==
    \E k \in Cancellers :
        /\ kn[k].res = "403"
        /\ kn[k].user = "bob"
        /\ kn[k].depId \in DepIds
        /\ deployments[kn[k].depId].status \in NonTerminal

\* The rows of project p that are newer than row d, and those that are older.
C27_Newer(p, d) ==
    {e \in DepsOf(p) : deployments[e].createdAt > deployments[d].createdAt}
C27_Older(p, d) ==
    {e \in DepsOf(p) : deployments[e].createdAt < deployments[d].createdAt}

\* C27: getDeployments changes no record. It returns rows of the project
\* only, each once, newest first, at most limit of them; the rows are those
\* that follow the (page - 1) * limit newest rows, as many as there are up to
\* limit; total is the number of the project's rows; and hasMore is true
\* exactly when the project has rows after the returned page.
C27_ListIsAPage ==
    [][(call.fn = "getDeployments" /\ call' # call)
          => LET p == call.projectId
                 res == call'.result
                 got == res.deployments
                 skip == (call.page - 1) * call.limit
                 n == Cardinality(DepsOf(p))
             IN  /\ UNCHANGED <<deployments, projects, builds>>
                 /\ call'.returned
                 /\ res.total = n
                 /\ \A i \in DOMAIN got : got[i] \in DepsOf(p)
                 /\ \A i, j \in DOMAIN got : i # j => got[i] # got[j]
                 /\ \A i, j \in DOMAIN got :
                       i < j => deployments[got[i]].createdAt
                                   >= deployments[got[j]].createdAt
                 /\ Len(got) <= call.limit
                 /\ Len(got) = IF n - skip < 0 THEN 0
                               ELSE IF n - skip < call.limit THEN n - skip
                               ELSE call.limit
                 /\ \A i \in DOMAIN got :
                       /\ Cardinality(C27_Newer(p, got[i])) <= skip + i - 1
                       /\ Cardinality(C27_Older(p, got[i]))
                             <= n - skip - i
                 /\ res.hasMore <=> n > skip + Len(got)]_vars

\* C27 happens: the second page of size one of a project with three
\* deployments was returned, with one more page to come.
C27_Witness ==
    /\ call.fn = "getDeployments"
    /\ call.returned
    /\ call.page = 2
    /\ call.limit = 1
    /\ Len(call.result.deployments) = 1
    /\ call.result.total = 3
    /\ call.result.hasMore

\* What a stream has sent: its last event, the text of its log events in
\* order, and whether an error event is among its events.
RECURSIVE Forwarded(_)
Forwarded(out) ==
    IF out = <<>> THEN <<>>
    ELSE IF Head(out).type = "log" THEN Head(out).content \o Forwarded(Tail(out))
    ELSE Forwarded(Tail(out))
LastEvent(out) == out[Len(out)]
HasError(out) == \E i \in DOMAIN out : out[i].type = "error"

\* A log-stream request is answered or taken up in this step by slot r.
LogsArrives(r) ==
    /\ rl[r].pc = "idle"
    /\ served'["logs"] # served["logs"]

\* The relay in slot r has closed its stream with complete, and the
\* deployment holds the status the backend status x maps to, the text the
\* stream forwarded and, when it is LIVE, the service URL.
C22_Stored(r, x) ==
    /\ rl[r].pc = "idle"
    /\ rl[r].out # <<>>
    /\ LastEvent(rl[r].out).type = "complete"
    /\ deployments[rl[r].depId].status = mapBuildStatusToDeploymentStatus(x)
    /\ deployments[rl[r].depId].buildLogs = Forwarded(rl[r].out)
    /\ mapBuildStatusToDeploymentStatus(x) = "LIVE"
          => deployments[rl[r].depId].cloudRunUrl # ""

\* C22: once the build of a relay's deployment is at a backend status that
\* maps to a terminal status, the relay eventually has stored that status
\* with the forwarded transcript (and the service URL for LIVE), emitted
\* complete and closed; runs in which a poll of the relay threw are left out.
C22_RelayStoresTheEnd ==
    \A r \in Relays : \A x \in BackendTerminal :
        (rl[r].pc # "idle" /\ builds[rl[r].buildId].status = x)
            ~> (C22_Stored(r, x) \/ rl[r].failures > 0 \/ HasError(rl[r].out))

\* C23: a log-stream request for a deployment that has ended is answered
\* with the stored transcript as one log event, the stored status and
\* complete, in this order and nothing else; no stream is opened, and no
\* deployment, project or build changes.
C23_StoredLogsReplayed ==
    [][\A r \in Relays :
          (LogsArrives(r)
             /\ rl'[r].res = "200"
             /\ deployments[rl'[r].depId].status \in Terminal)
          => /\ rl'[r].pc = "idle"
             /\ rl'[r].out =
                   <<LogEvent(deployments[rl'[r].depId].buildLogs),
                     StatusEvent(deployments[rl'[r].depId].status),
                     CompleteEvent>>
             /\ UNCHANGED <<deployments, projects, builds>>]_vars

\* C24: a log-stream request for a deployment that has not ended and has no
\* build is answered with one placeholder log event and nothing else; no
\* stream is opened, and no deployment, project or build changes.
C24_PlaceholderOnly ==
    [][\A r \in Relays :
          (LogsArrives(r)
             /\ rl'[r].res = "200"
             /\ deployments[rl'[r].depId].status \in NonTerminal
             /\ deployments[rl'[r].depId].buildId = 0)
          => /\ rl'[r].pc = "idle"
             /\ Len(rl'[r].out) = 1
             /\ rl'[r].out[1] = LogEvent(<<WaitingForBuild>>)
             /\ UNCHANGED <<deployments, projects, builds>>]_vars

\* C24 happens: the logs of a deployment whose build had not been submitted
\* yet were asked for, and the placeholder was the answer.
C24_Witness ==
    \E r \in Relays :
        /\ rl[r].pc = "idle"
        /\ rl[r].res = "200"
        /\ rl[r].out = <<LogEvent(<<WaitingForBuild>>)>>
        /\ deployments[rl[r].depId].buildId = 0

\* A cancel of the deployment of the relay in slot r has returned while the
\* relay is polling.
C25_CancelledWhilePolling(r) ==
    /\ rl[r].pc # "idle"
    /\ \E k \in Cancellers :
          /\ kn[k].pc = "idle"
          /\ kn[k].res = "200"
          /\ kn[k].depId = rl[r].depId

\* C25: from the moment a cancel of the deployment has returned, the relay
\* that is polling it changes the deployment's status no more and sends no
\* status event, and it eventually closes its stream.
C25_RelayStopsOnCancel ==
    /\ [][\A r \in Relays :
             C25_CancelledWhilePolling(r)
                => /\ deployments'[rl[r].depId].status
                         = deployments[rl[r].depId].status
                   /\ \A i \in DOMAIN rl'[r].out :
                         i > Len(rl[r].out) => rl'[r].out[i].type # "status"]_vars
    /\ \A r \in Relays :
          C25_CancelledWhilePolling(r) ~> (rl[r].pc = "idle")

\* C26: a stream in which exactly one fetch or poll has thrown has sent no
\* error event, and is closed only with complete.
C26_OneFailureTolerated ==
    \A r \in Relays :
        rl[r].failures = 1
           => /\ ~HasError(rl[r].out)
              /\ rl[r].pc = "idle"
                    => /\ rl[r].out # <<>>
                       /\ LastEvent(rl[r].out).type = "complete"

\* C29: the status events of one stream, one for each status write of its
\* relay, all carry different statuses: a status is written once, when the
\* mapped backend status first differs from the last one.
C29_OneWritePerStatus ==
    \A r \in Relays :
        \A i, j \in DOMAIN rl[r].out :
            (i < j /\ rl[r].out[i].type = "status"
                   /\ rl[r].out[j].type = "status")
               => rl[r].out[i].status # rl[r].out[j].status

\* C30: when a relay closes its stream with complete and the deployment has
\* ended, whether LIVE, FAILED or CANCELLED, the stored transcript is the
\* text of the log events of the stream, in order.
C30_TranscriptIsWhatWasSent ==
    [][\A r \in Relays :
          (rl[r].pc # "idle"
             /\ rl'[r].pc = "idle"
             /\ LastEvent(rl'[r].out).type = "complete"
             /\ deployments'[rl[r].depId].status \in Terminal)
          => deployments'[rl[r].depId].buildLogs = Forwarded(rl'[r].out)]_vars

\* The bytes of the backend log in a transcript: what is left of it without
\* the notices that streamBuildLogs adds.
RECURSIVE C31_LogOnly(_)
C31_LogOnly(text) ==
    IF text = <<>> THEN <<>>
    ELSE IF Head(text) < 0 THEN C31_LogOnly(Tail(text))
    ELSE <<Head(text)>> \o C31_LogOnly(Tail(text))

\* The stream in slot r has been closed with complete.
C31_Completed(r) ==
    /\ rl[r].pc = "idle"
    /\ rl[r].res = "200"
    /\ rl[r].out # <<>>
    /\ LastEvent(rl[r].out).type = "complete"

\* C31: when two streams of one deployment that were open at the same time
\* have both been closed with complete and the build has ended, the
\* deployment holds the status that the build's status maps to, and its
\* transcript holds the whole log of the build.
C31_RelaysConverge ==
    \A r, o \in TwoRelays :
        (/\ r # o
         /\ C31_Completed(r)
         /\ C31_Completed(o)
         /\ rl[r].depId = rl[o].depId
         /\ rl[r].concurrent
         /\ builds[deployments[rl[r].depId].buildId].status \in BackendTerminal)
        => LET d == deployments[rl[r].depId]
               b == builds[d.buildId]
           IN  /\ d.status = mapBuildStatusToDeploymentStatus(b.status)
               /\ C31_LogOnly(d.buildLogs) = LogBytes(b, 0)

\* C32: whenever a log stream sends complete, the stored status of its
\* deployment is LIVE, FAILED or CANCELLED; a build that is still queued or
\* running, with or without a log location, does not end the stream with
\* complete.
C32_CompleteMeansEnded ==
    [][\A r \in Relays :
          (/\ rl'[r] # rl[r]
           /\ rl'[r].out # <<>>
           /\ LastEvent(rl'[r].out).type = "complete")
          => deployments'[rl'[r].depId].status \in Terminal]_vars

\* C33: a deployment that no createDeployment is working on any more is not
\* QUEUED: create has started its build or, when a step after the insert
\* failed, has stored it as FAILED.
C33_NeverLeftQueued ==
    \A d \in DepIds :
        (\A c \in Creators : ~(InCreate(c) /\ cr[c].depId = d))
           => deployments[d].status # "QUEUED"

\* createDeployment in slot c has read a project that does not exist or has
\* no repository URL.
C35_NothingToBuild(c) ==
    /\ cr[c].pc = "cd_find"
    /\ cr'[c] # cr[c]
    /\ \/ cr[c].projectId \notin Projects
       \/ ProjectCfg(cr[c].projectId).repoUrl = NoUrl

\* C35: createDeployment for a project id that is not stored, or for a
\* project without repository URL, throws at once: no deployment is
\* inserted, no project is changed, and no build is submitted.
C35_ThrowsBeforeAnyWrite ==
    [][\A c \in Creators :
          C35_NothingToBuild(c)
             => /\ cr'[c].pc = "idle"
                /\ UNCHANGED <<deployments, projects, builds>>]_vars

\* C35 happens: createDeployment was called twice, each time for a project
\* id that is not stored or for a project without repository URL; both calls
\* have ended, and nothing is stored.
C35_Witness ==
    /\ served["deploy"] = 2
    /\ dp.projectId \in {"missing", "p2"}
    /\ \A c \in Creators : cr[c].pc = "idle"
    /\ deployments = <<>>
    /\ builds = <<>>
    /\ \A p \in Projects : projects[p] = NewProject

\* The texts of a sequence of chunks, one after the other.
RECURSIVE C34_Concat(_)
C34_Concat(chunks) ==
    IF chunks = <<>> THEN <<>>
    ELSE Head(chunks) \o C34_Concat(Tail(chunks))

\* C34: the chunks that streamBuildLogs has yielded, in the order of the
\* fetches, make up the text of the log object as far as it has been
\* fetched, nothing of it twice and nothing left out; the offset of the next
\* fetch is the length of what was yielded, which a fetch that yields
\* nothing leaves as it is.
C34_ChunksAreTheLog ==
    call.fn = "streamBuildLogs"
       => /\ C34_Concat(call.chunks) = Decoded(call.log, 0, call.fetched)
          /\ call.lastSize = Len(C34_Concat(call.chunks))
          /\ \A i \in DOMAIN call.chunks : call.chunks[i] # <<>>

\* No create, no cancel and no write of a relay is in progress.
C36_Quiet ==
    /\ \A c \in Creators : cr[c].pc = "idle"
    /\ \A k \in Cancellers : kn[k].pc = "idle"
    /\ \A r \in Relays : rl[r].pc \notin {"r_write", "r_final", "r_project"}

C37_ReturnsWhatIsStored ==
    [][\A c \in Creators :
          (cr[c].pc = "cd_started" /\ cr'[c].pc = "idle")
             => LET stored == deployments'[cr[c].depId] IN
                /\ ReturnedDeployment(c).status = stored.status
                /\ ReturnedDeployment(c).startedAt = stored.startedAt
                /\ ReturnedDeployment(c).buildId = stored.buildId]_vars

\* The deployments whose status a step writes: the new ones, and those whose
\* status is not what it was.
C38_Written ==
    {d \in DOMAIN deployments' :
        d \notin DepIds \/ deployments'[d].status # deployments[d].status}

\* C38: no deployment is ever PUSHING or DEPLOYING: a step of
\* createDeployment stores QUEUED, CLONING or FAILED, a step of a cancel
\* stores CANCELLED, and a step of a log relay stores QUEUED, BUILDING, LIVE,
\* FAILED or CANCELLED.
C38_NoPushingNoDeploying ==
    /\ [](\A d \in DepIds :
             deployments[d].status \notin {"PUSHING", "DEPLOYING"})
    /\ [][\A d \in C38_Written :
             /\ cr' # cr
                  => deployments'[d].status \in {"QUEUED", "CLONING", "FAILED"}
             /\ kn' # kn => deployments'[d].status = "CANCELLED"
             /\ rl' # rl
                  => deployments'[d].status
                        \in {"QUEUED", "BUILDING", "LIVE", "FAILED",
                             "CANCELLED"}]_vars

\* C38 happens: a log relay has stored BUILDING, the status between those
\* that create stores and those that end a deployment.
C38_Witness ==
    \E r \in Relays :
        /\ rl[r].res = "200"
        /\ rl[r].depId \in DepIds
        /\ deployments[rl[r].depId].status = "BUILDING"
        /\ \E i \in DOMAIN rl[r].out :
              /\ rl[r].out[i].type = "status"
              /\ rl[r].out[i].status = "BUILDING"

====
